---- MODULE Spec2Model ----
(***************************************************************************)
(* A model of the energy-forecasting backoffice:                           *)
(*   - the OPSD importer   (energy_data/.../import_opsd_data.py),          *)
(*   - the weather importer (weather/.../import_weather_data.py),          *)
(*   - the report pipeline  (analytics/.../generate_data_profile.py and    *)
(*     analytics/admin.py).                                                *)
(*                                                                         *)
(* A column name is the sequence of its pieces between underscores, so     *)
(* that col.split('_') is the sequence itself and a substring test such as *)
(* 'load_actual' in col is a test for a contiguous run of pieces.  Its     *)
(* first piece, the country code, is the sequence of its characters.       *)
(* A cell is NULL (pandas NaN), a number, or BAD (text that is no number). *)
(***************************************************************************)
EXTENDS Integers, Sequences, FiniteSets, TLC

VARIABLES
    \* ---- the importers' command invocation ----
    kind,        \* which command the session runs: "opsd" or "weather"
    table,       \* the CSV source as read by read_csv_file: [cols, rows]
    batch_size,  \* options['batch_size']
    countries,   \* options['countries'] of the weather importer (NULL: absent)
    dry_run,     \* options['dry_run'] of the command that runs or ran last
    pc,          \* where the command is
    start_idx,   \* the batch loop's start_idx (rows before it are processed)
    stats,       \* the import_stats counters of the running command
    db,          \* the committed rows of every table (what is persisted)
    tx,          \* the rows as the open transaction sees them
    committed,   \* db as it was when the running command last left a batch
    failures,    \* the inserts that raised in the running command:
                 \* [stage, start] (the batch that starts at start)
    history,     \* one entry per finished command
    \* ---- the report pipeline ----
    req,         \* per request: options, thread position, local variables
    logs,        \* ReportGenerationLog rows, per request
    reports,     \* DataProfilingReport rows
    files,       \* the file system: path -> the request whose report it holds
    s3,          \* the object store: key -> the request whose report it holds
    now,         \* the wall clock, in seconds
    settings     \* the deployment's settings the pipeline reads

import_vars == <<kind, table, batch_size, countries, dry_run, pc, start_idx,
                 stats, tx, committed, failures, history>>
report_vars == <<req, logs, reports, files, s3, now, settings>>
vars == <<import_vars, db, report_vars>>

\* ---------------------------------------------------------------- bounds
MaxRows == 2        \* rows of a source table
MaxTs == 2          \* distinct timestamps
MaxBatch == 2       \* largest batch size tried
MaxRuns == 2        \* commands run one after the other on the same store
MaxRequests == 2    \* report requests submitted
MaxClock == 1       \* seconds the wall clock advances
MaxSourceRows == 1  \* rows of a source file that may be unusable
MaxCols == 2        \* data columns of a header given to the classifier
MaxBuildRows == 1   \* rows given to a record builder

\* ------------------------------------------------------- program constants
MaxCodeLen == 10    \* country_code = CharField(max_length=10)

\* a cell or a field: NULL (NaN, None), a number, or text that is no number
NULL == <<"null">>
BAD == <<"text">>
Num(n) == <<"num", n>>
Values == {NULL, Num(1), BAD}

NoColumn == <<>>                      \* None where a column name is expected
NoType == "none"                      \* None where a generation type is

IsNa(v) == v = NULL                   \* pd.isna
Rejected(v) == v = BAD                \* a FloatField cannot store it

\* ------------------------------------------------------------ sequences
Range(s) == {s[i] : i \in DOMAIN s}

RECURSIVE Concat(_)
Concat(ss) == IF ss = <<>> THEN <<>> ELSE Head(ss) \o Concat(Tail(ss))

\* pat occurs in s as a contiguous run of pieces ('a_b' in 'x_a_b_y')
Contains(s, pat) ==
    \E i \in 0..(Len(s) - Len(pat)) : SubSeq(s, i + 1, i + Len(pat)) = pat

\* s with every run of pieces pat replaced by rep (str.replace)
RECURSIVE Replace(_, _, _)
Replace(s, pat, rep) ==
    IF Len(s) < Len(pat) THEN s
    ELSE IF SubSeq(s, 1, Len(pat)) = pat
         THEN rep \o Replace(SubSeq(s, Len(pat) + 1, Len(s)), pat, rep)
         ELSE <<Head(s)>> \o Replace(Tail(s), pat, rep)

\* ------------------------------------------------------------ the source
utc_timestamp == << <<"u", "t", "c">>, "timestamp" >>
cet_cest_timestamp == << <<"c", "e", "t">>, "cest", "timestamp" >>

\* row.get(col): the cell, or None when the row has no such column
Get(row, col) == IF col \in DOMAIN row.val THEN row.val[col] ELSE NULL

\* the frame's columns, as pandas lists them
Columns(t) == <<utc_timestamp, cet_cest_timestamp>> \o t.cols

\* country codes, as their characters
DE == <<"D", "E">>
FR == <<"F", "R">>
GB == <<"G", "B">>
LUXEMBOURG01 == <<"L", "U", "X", "E", "M", "B", "O", "U", "R", "G", "0", "1">>

OpsdColumnLists ==
    { << <<DE, "load", "actual">>, <<DE, "load", "forecast">>,
         <<FR, "load", "actual">> >>,
      << <<DE, "load", "actual">>, <<DE, "solar", "generation", "actual">>,
         <<GB, "price", "day", "ahead">> >> }

WeatherColumnLists ==
    { << <<DE, "temperature">>,
         <<DE, "radiation", "direct", "horizontal">>,
         <<DE, "radiation", "diffuse", "horizontal">> >>,
      << <<DE, "temperature">>, <<LUXEMBOURG01, "temperature">> >> }

RowsOver(c) ==
    UNION { [1..n -> [ts : 1..MaxTs, val : [Range(c) -> Values]]] :
            n \in 0..MaxRows }

TablesOver(lists) ==
    UNION { { [cols |-> c, rows |-> r] : r \in RowsOver(c) } : c \in lists }

\* ------------------------------------------------- the persisted tables
EmptyDb == [load |-> <<>>, generation |-> <<>>, price |-> <<>>,
            weather |-> <<>>, import_log |-> <<>>]

\* Meta.unique_together of each model
LoadKey(r) == <<r.country_code, r.utc_timestamp>>
GenerationKey(r) == <<r.country_code, r.utc_timestamp, r.generation_type>>
PriceKey(r) == <<r.country_code, r.utc_timestamp>>
WeatherKey(r) == <<r.country_code, r.location, r.timestamp>>

KeyOf(tbl, r) ==
    CASE tbl = "load" -> LoadKey(r)
      [] tbl = "generation" -> GenerationKey(r)
      [] tbl = "price" -> PriceKey(r)
      [] tbl = "weather" -> WeatherKey(r)

Keys(tbl, rows) == {KeyOf(tbl, rows[i]) : i \in DOMAIN rows}

\* the numeric fields a record carries
Numbers(tbl, r) ==
    CASE tbl = "load" -> {r.actual_load_mw, r.forecast_load_mw}
      [] tbl = "generation" ->
             {r.actual_generation_mw, r.capacity_mw, r.capacity_factor}
      [] tbl = "price" -> {r.day_ahead_price}
      [] tbl = "weather" -> {r.temperature_celsius, r.solar_irradiance_wm2}

\* the store refuses the statement: a value that is no number in a FloatField,
\* or a country code longer than the column
StoreRaises(tbl, records) ==
    \E i \in DOMAIN records :
        \/ Len(records[i].country_code) > MaxCodeLen
        \/ \E v \in Numbers(tbl, records[i]) : Rejected(v)

\* a table without its unique constraint: every record becomes a row
InsertNoUnique(tbl, rows, records) == rows \o records

\* an upsert: a record whose key is taken replaces the row
RECURSIVE InsertOverwrite(_, _, _)
InsertOverwrite(tbl, rows, records) ==
    IF records = <<>> THEN rows
    ELSE InsertOverwrite(
             tbl,
             IF KeyOf(tbl, Head(records)) \in Keys(tbl, rows)
                 THEN [i \in DOMAIN rows |->
                          IF KeyOf(tbl, rows[i]) = KeyOf(tbl, Head(records))
                              THEN Head(records) ELSE rows[i]]
                 ELSE Append(rows, Head(records)),
             Tail(records))

\* Model.objects.bulk_create(records, ignore_conflicts=True) on the rows:
\* INSERT ... ON CONFLICT DO NOTHING, where a record whose key is taken, by a
\* row or by an earlier record of the statement, is skipped
RECURSIVE bulk_create(_, _, _)
bulk_create(tbl, rows, records) ==
    IF records = <<>> THEN rows
    ELSE bulk_create(
             tbl,
             IF KeyOf(tbl, Head(records)) \in Keys(tbl, rows)
                 THEN rows ELSE Append(rows, Head(records)),
             Tail(records))

\* the same write in autocommit mode (no atomic block around it)
WriteAutocommit(d, t, tbl, records) ==
    [db |-> [d EXCEPT ![tbl] = bulk_create(tbl, d[tbl], records)],
     tx |-> [t EXCEPT ![tbl] = bulk_create(tbl, t[tbl], records)]]

\* a write inside `with transaction.atomic()`: the open transaction sees it,
\* the committed rows do not
Write(d, t, tbl, records) ==
    [db |-> d, tx |-> [t EXCEPT ![tbl] = bulk_create(tbl, t[tbl], records)]]

\* an atomic block that is left without a commit
AtomicExitNeverCommits(d, t, raised) == d

\* leaving the atomic block: commit, or roll back when it is left by an
\* exception (or after a statement inside it failed)
AtomicExit(d, t, raised) == IF raised THEN d ELSE t

\* ------------------------------------------------------ the OPSD importer
ZeroStats == [load_records |-> 0, generation_records |-> 0,
              price_records |-> 0, weather_records |-> 0, errors |-> 0]

\* a classifier that tries the rules in the opposite order
BucketPriceFirst(column) ==
    IF column \in {utc_timestamp, cet_cest_timestamp} THEN "timestamp"
    ELSE IF Len(column) < 2 THEN "ignored"
    ELSE LET data_type == Tail(column) IN
         IF Contains(data_type, <<"price", "day", "ahead">>)
              THEN "energy_prices"
         ELSE IF Contains(data_type, <<"capacity">>) THEN "capacity_data"
         ELSE IF Contains(data_type, <<"generation", "actual">>)
              THEN "renewable_generation"
         ELSE IF \/ Contains(data_type, <<"load", "actual">>)
                 \/ Contains(data_type, <<"load", "forecast">>) THEN "load_data"
         ELSE "ignored"

\* parse_column_structure: the bucket of one column
Bucket(column) ==
    IF column \in {utc_timestamp, cet_cest_timestamp} THEN "timestamp"
    ELSE IF Len(column) < 2 THEN "ignored"
    ELSE LET data_type == Tail(column) IN
         IF \/ Contains(data_type, <<"load", "actual">>)
            \/ Contains(data_type, <<"load", "forecast">>) THEN "load_data"
         ELSE IF Contains(data_type, <<"generation", "actual">>)
              THEN "renewable_generation"
         ELSE IF Contains(data_type, <<"capacity">>) THEN "capacity_data"
         ELSE IF Contains(data_type, <<"price", "day", "ahead">>)
              THEN "energy_prices"
         ELSE "ignored"

\* a classifier of independent tests: a column goes to the bucket of every
\* rule that matches it
parse_column_structure_any(t) ==
    LET data_type(c) == Tail(c)
        Matches(c, b) ==
            /\ c \notin {utc_timestamp, cet_cest_timestamp}
            /\ IF Len(c) < 2 THEN b = "ignored"
               ELSE CASE b = "load_data" ->
                           \/ Contains(data_type(c), <<"load", "actual">>)
                           \/ Contains(data_type(c), <<"load", "forecast">>)
                      [] b = "renewable_generation" ->
                           Contains(data_type(c), <<"generation", "actual">>)
                      [] b = "capacity_data" ->
                           Contains(data_type(c), <<"capacity">>)
                      [] b = "energy_prices" ->
                           Contains(data_type(c), <<"price", "day", "ahead">>)
                      [] OTHER -> Bucket(c) = "ignored"
    IN [b \in {"load_data", "renewable_generation", "energy_prices",
               "capacity_data", "ignored"} |->
          SelectSeq(Columns(t), LAMBDA c : Matches(c, b))]

\* parse_column_structure: bucket -> the columns of the bucket, in order
parse_column_structure(t) ==
    [b \in {"load_data", "renewable_generation", "energy_prices",
            "capacity_data", "ignored"} |->
        SelectSeq(Columns(t), LAMBDA c : Bucket(c) = b)]

\* import_load_data, lines 206-216: per country, in order of first
\* appearance, its actual and forecast column (the last of each wins)
IsActualColumn(col) == Contains(col, <<"load", "actual">>)
IsForecastColumn(col) ==
    ~IsActualColumn(col) /\ Contains(col, <<"load", "forecast">>)

LastOf(cols, code, actual) ==
    LET hits == {i \in DOMAIN cols :
                    /\ cols[i][1] = code
                    /\ IF actual THEN IsActualColumn(cols[i])
                       ELSE IsForecastColumn(cols[i])}
    IN IF hits = {} THEN NoColumn
       ELSE cols[CHOOSE i \in hits : \A j \in hits : j <= i]

country_loads(load_columns) ==
    LET first == SelectSeq([i \in DOMAIN load_columns |-> i],
                     LAMBDA i : \A j \in 1..(i - 1) :
                         load_columns[j][1] # load_columns[i][1])
    IN [k \in DOMAIN first |->
          LET code == load_columns[first[k]][1] IN
          [country_code |-> code,
           actual |-> LastOf(load_columns, code, TRUE),
           forecast |-> LastOf(load_columns, code, FALSE)]]

\* import_load_data, lines 219-238: the records built from the rows
LoadRecordOf(row, c) ==
    LET actual_val == IF c.actual # NoColumn THEN Get(row, c.actual)
                      ELSE NULL
        forecast_val == IF c.forecast # NoColumn THEN Get(row, c.forecast)
                        ELSE NULL
    IN IF IsNa(actual_val) /\ IsNa(forecast_val) THEN <<>>
       ELSE << [utc_timestamp |-> row.ts,
                country_code |-> c.country_code,
                actual_load_mw |-> actual_val,
                forecast_load_mw |-> forecast_val] >>

load_records(rows, load_columns) ==
    LET cl == country_loads(load_columns) IN
    Concat([i \in DOMAIN rows |->
              Concat([k \in DOMAIN cl |-> LoadRecordOf(rows[i], cl[k])])])

\* import_generation_data, lines 256-274: the first key of
\* generation_type_map that occurs in the column
generation_type_map ==
    << [key |-> <<"solar", "generation", "actual">>, value |-> "solar"],
       [key |-> <<"wind", "onshore", "generation", "actual">>,
        value |-> "wind_onshore"],
       [key |-> <<"wind", "offshore", "generation", "actual">>,
        value |-> "wind_offshore"],
       [key |-> <<"wind", "generation", "actual">>, value |-> "wind_total"] >>

generation_type(col) ==
    LET hits == {k \in DOMAIN generation_type_map :
                    Contains(col, generation_type_map[k].key)}
    IN IF hits = {} THEN NoType
       ELSE generation_type_map[CHOOSE k \in hits : \A j \in hits : k <= j].value

\* lines 283-289: the capacity cell that goes with a generation column
capacity_val(row, col, capacity_columns) ==
    LET capacity_col == Replace(col, <<"generation", "actual">>, <<"capacity">>)
    IN IF capacity_col \in Range(capacity_columns)
       THEN Get(row, capacity_col) ELSE NULL

\* generation / capacity, kept as the exact ratio
Ratio(g, c) == <<"ratio", g[2], c[2]>>

\* a factor whenever there is a capacity, whatever its sign
HasFactorNonNull(cap) == cap[1] = "num"

\* lines 291-294: `if capacity_val and capacity_val > 0`
HasFactor(cap) == cap[1] = "num" /\ cap[2] # 0 /\ cap[2] > 0

\* lines 293-294 raise a TypeError on text: comparing it with 0, dividing it
FactorRaises(gen, cap) ==
    \/ cap = BAD
    \/ HasFactor(cap) /\ gen = BAD

GenerationCells(rows, generation_columns) ==
    SelectSeq(
        Concat([i \in DOMAIN rows |->
                  [k \in DOMAIN generation_columns |->
                      [row |-> rows[i], col |-> generation_columns[k]]]]),
        LAMBDA x : /\ generation_type(x.col) # NoType
                   /\ ~IsNa(Get(x.row, x.col)))

generation_build_raises(rows, generation_columns, capacity_columns) ==
    LET cells == GenerationCells(rows, generation_columns) IN
    \E n \in DOMAIN cells :
        FactorRaises(Get(cells[n].row, cells[n].col),
                     capacity_val(cells[n].row, cells[n].col, capacity_columns))

generation_records(rows, generation_columns, capacity_columns) ==
    LET cells == GenerationCells(rows, generation_columns) IN
    [n \in DOMAIN cells |->
        LET gen == Get(cells[n].row, cells[n].col)
            cap == capacity_val(cells[n].row, cells[n].col, capacity_columns)
        IN [utc_timestamp |-> cells[n].row.ts,
            country_code |-> cells[n].col[1],
            generation_type |-> generation_type(cells[n].col),
            actual_generation_mw |-> gen,
            capacity_mw |-> cap,
            capacity_factor |->
                IF HasFactor(cap) THEN Ratio(gen, cap) ELSE NULL]]

\* import_price_data, lines 321-339
startswith(code, prefix) ==
    Len(code) >= Len(prefix) /\ SubSeq(code, 1, Len(prefix)) = prefix

\* the default of the model's field, for every code
currency_default(code) == "EUR"

currency(code) == IF startswith(code, GB) THEN "GBP" ELSE "EUR"

price_records(rows, price_columns) ==
    LET cells == SelectSeq(
            Concat([i \in DOMAIN rows |->
                      [k \in DOMAIN price_columns |->
                          [row |-> rows[i], col |-> price_columns[k]]]]),
            LAMBDA x : ~IsNa(Get(x.row, x.col)))
    IN [n \in DOMAIN cells |->
           [utc_timestamp |-> cells[n].row.ts,
            country_code |-> cells[n].col[1],
            day_ahead_price |-> Get(cells[n].row, cells[n].col),
            currency |-> currency(cells[n].col[1])]]

\* count_load_records, count_generation_records, count_price_records: the
\* number of cells of the columns that are not null
RECURSIVE Sum(_)
Sum(ns) == IF ns = <<>> THEN 0 ELSE Head(ns) + Sum(Tail(ns))

count_records(rows, columns) ==
    Sum([k \in DOMAIN columns |->
           Cardinality({i \in DOMAIN rows : ~IsNa(Get(rows[i], columns[k]))})])

\* df.iloc[start_idx:end_idx] of the batch that starts at start_idx
end_idx(t, start, size) ==
    IF start + size < Len(t.rows) THEN start + size ELSE Len(t.rows)

batch_df(t, start, size) == SubSeq(t.rows, start + 1, end_idx(t, start, size))

\* --------------------------------------------------- the weather importer
\* str.upper on a code
UpperChar(ch) ==
    CASE ch = "d" -> "D" [] ch = "e" -> "E" [] ch = "f" -> "F"
      [] ch = "r" -> "R" [] OTHER -> ch

upper(code) == [i \in DOMAIN code |-> UpperChar(code[i])]

\* parse_weather_columns, lines 143-157: the columns that map to a country
IsWeatherColumn(column, countries_filter) ==
    /\ column # utc_timestamp
    /\ Len(column) >= 2
    /\ \/ countries_filter = <<>>
       \/ upper(column[1]) \in {upper(c) : c \in Range(countries_filter)}

ColumnOf(cols, code, variable) ==
    LET hits == {i \in DOMAIN cols :
                    upper(cols[i][1]) = code /\ Tail(cols[i]) = variable}
    IN IF hits = {} THEN NoColumn
       ELSE cols[CHOOSE i \in hits : \A j \in hits : j <= i]

\* parse_weather_columns: per country, in order of first appearance, the
\* column of each variable (the last one wins)
parse_weather_columns(t, countries_filter) ==
    LET cols == SelectSeq(t.cols,
                    LAMBDA c : IsWeatherColumn(c, countries_filter))
        first == SelectSeq([i \in DOMAIN cols |-> i],
                     LAMBDA i : \A j \in 1..(i - 1) :
                         upper(cols[j][1]) # upper(cols[i][1]))
    IN [k \in DOMAIN first |->
          LET code == upper(cols[first[k]][1]) IN
          [country_code |-> code,
           temperature |-> ColumnOf(cols, code, <<"temperature">>),
           radiation_direct |->
               ColumnOf(cols, code, <<"radiation", "direct", "horizontal">>),
           radiation_diffuse |->
               ColumnOf(cols, code, <<"radiation", "diffuse", "horizontal">>)]]

\* the cell of a variable of a country, None when the country has no column
WeatherCell(row, col) == IF col # NoColumn THEN Get(row, col) ELSE NULL

\* process_weather_batch, lines 229-246: float(value) raises on text
WeatherRaises(row, c) ==
    \E col \in {c.temperature, c.radiation_direct, c.radiation_diffuse} :
        WeatherCell(row, col) = BAD

\* the direct component alone
solar_irradiance_direct(direct_rad, diffuse_rad) == direct_rad

\* lines 248-254
solar_irradiance(direct_rad, diffuse_rad) ==
    IF direct_rad # NULL /\ diffuse_rad # NULL
        THEN Num(direct_rad[2] + diffuse_rad[2])
    ELSE IF direct_rad # NULL THEN direct_rad
    ELSE diffuse_rad

\* lines 223-272: the record of one row and country, if one is built
WeatherRecordOf(row, c) ==
    LET temperature == WeatherCell(row, c.temperature)
        irradiance == solar_irradiance(WeatherCell(row, c.radiation_direct),
                                       WeatherCell(row, c.radiation_diffuse))
    IN IF WeatherRaises(row, c) THEN <<>>
       ELSE IF temperature = NULL /\ irradiance = NULL THEN <<>>
       ELSE << [timestamp |-> row.ts,
                location |-> <<c.country_code, "Average">>,
                country_code |-> c.country_code,
                temperature_celsius |-> temperature,
                solar_irradiance_wm2 |-> irradiance] >>

weather_records(rows, country_mapping) ==
    Concat([i \in DOMAIN rows |->
              Concat([k \in DOMAIN country_mapping |->
                        WeatherRecordOf(rows[i], country_mapping[k])])])

\* lines 274-277: one error per row and country whose conversion raised
weather_errors(rows, country_mapping) ==
    Cardinality({x \in (DOMAIN rows) \X (DOMAIN country_mapping) :
                    WeatherRaises(rows[x[1]], country_mapping[x[2]])})

\* count_weather_records: the rows and countries with any cell that is not null
count_weather_records(rows, country_mapping) ==
    Cardinality({x \in (DOMAIN rows) \X (DOMAIN country_mapping) :
        LET c == country_mapping[x[2]] IN
        \E col \in {c.temperature, c.radiation_direct, c.radiation_diffuse} :
            ~IsNa(WeatherCell(rows[x[1]], col))})

\* ------------------------------------------------------------ the commands
\* `if not dry_run:` (import_opsd_data.py 69 and 176, import_weather_data.py
\* 74 and 201)
WritesEnabledAlways(dry) == TRUE

WritesEnabled(dry) == ~dry

Batch == batch_df(table, start_idx, batch_size)
NextIdx == end_idx(table, start_idx, batch_size)
column_mapping == parse_column_structure(table)
country_mapping == parse_weather_columns(table, countries)

\* the entry of the running command in the history
Running == Len(history)

Ended(outcome, stage, d) ==
    [history EXCEPT ![Running] =
        [@ EXCEPT !.outcome = outcome, !.raised = stage, !.stats = stats',
                  !.after = d]]

\* the command raises CommandError (handle, lines 76-80)
Abort(stage, d) ==
    /\ db' = d
    /\ tx' = d
    /\ pc' = "failed"
    /\ failures' = failures \cup {[stage |-> stage, start |-> start_idx]}
    /\ stats' = stats
    /\ history' = Ended("failed", stage, d)
    /\ UNCHANGED <<start_idx, committed>>

\* handle, up to the first batch: read the source, validate it, parse the
\* columns, zero the counters
StartCommand(dry) ==
    /\ pc \in {"idle", "done", "failed"}
    /\ Len(history) < MaxRuns
    /\ dry_run' = dry
    /\ stats' = ZeroStats
    /\ start_idx' = 0
    /\ committed' = db
    /\ tx' = db
    /\ failures' = {}
    /\ history' = Append(history, [kind |-> kind, dry_run |-> dry,
                                   outcome |-> "running", raised |-> "none",
                                   stats |-> ZeroStats,
                                   before |-> db, after |-> db])
    /\ pc' = IF Len(table.rows) = 0 THEN "finish"
             ELSE IF ~WritesEnabled(dry) THEN "count"
             ELSE IF kind = "opsd" THEN "load" ELSE "weather"
    /\ UNCHANGED <<kind, table, batch_size, countries, db, report_vars>>

\* import_data, lines 177-180: enter the atomic block, import the load data
ImportLoadData ==
    /\ pc = "load"
    /\ LET records == load_records(Batch, column_mapping["load_data"]) IN
       IF StoreRaises("load", records)
       THEN Abort("load", AtomicExit(db, tx, TRUE))
       ELSE LET w == Write(db, tx, "load", records) IN
            /\ db' = w.db
            /\ tx' = w.tx
            /\ stats' = [stats EXCEPT !.load_records = @ + Len(records)]
            /\ pc' = "generation"
            /\ UNCHANGED <<start_idx, committed, failures, history>>
    /\ UNCHANGED <<kind, table, batch_size, countries, dry_run, report_vars>>

\* import_data, lines 182-188
ImportGenerationData ==
    /\ pc = "generation"
    /\ LET gcols == column_mapping["renewable_generation"]
           ccols == column_mapping["capacity_data"]
           records == generation_records(Batch, gcols, ccols)
       IN
       IF \/ generation_build_raises(Batch, gcols, ccols)
          \/ StoreRaises("generation", records)
       THEN Abort("generation", AtomicExit(db, tx, TRUE))
       ELSE LET w == Write(db, tx, "generation", records) IN
            /\ db' = w.db
            /\ tx' = w.tx
            /\ stats' = [stats EXCEPT !.generation_records = @ + Len(records)]
            /\ pc' = "price"
            /\ UNCHANGED <<start_idx, committed, failures, history>>
    /\ UNCHANGED <<kind, table, batch_size, countries, dry_run, report_vars>>

\* import_data, lines 190-192, and the exit of the atomic block
ImportPriceData ==
    /\ pc = "price"
    /\ LET records == price_records(Batch, column_mapping["energy_prices"]) IN
       IF StoreRaises("price", records)
       THEN Abort("price", AtomicExit(db, tx, TRUE))
       ELSE LET w == Write(db, tx, "price", records)
                d == AtomicExit(w.db, w.tx, FALSE)
            IN
            /\ db' = d
            /\ tx' = d
            /\ committed' = d
            /\ stats' = [stats EXCEPT !.price_records = @ + Len(records)]
            /\ start_idx' = NextIdx
            /\ pc' = IF NextIdx < Len(table.rows) THEN "load" ELSE "finish"
            /\ UNCHANGED <<failures, history>>
    /\ UNCHANGED <<kind, table, batch_size, countries, dry_run, report_vars>>

\* import_data, lines 193-198: a batch of a dry run
CountBatch ==
    /\ pc = "count"
    /\ kind = "opsd"
    /\ stats' = [stats EXCEPT
          !.load_records = @ + count_records(Batch, column_mapping["load_data"]),
          !.generation_records =
              @ + count_records(Batch, column_mapping["renewable_generation"]),
          !.price_records =
              @ + count_records(Batch, column_mapping["energy_prices"])]
    /\ start_idx' = NextIdx
    /\ pc' = IF NextIdx < Len(table.rows) THEN "count" ELSE "finish"
    /\ UNCHANGED <<kind, table, batch_size, countries, dry_run, db, tx,
                   committed, failures, history, report_vars>>

\* import_weather_data, lines 201-205, with process_weather_batch: a failed
\* bulk_create is caught inside the atomic block, which then rolls back
ProcessWeatherBatch ==
    /\ pc = "weather"
    /\ LET records == weather_records(Batch, country_mapping)
           errors == weather_errors(Batch, country_mapping)
       IN
       IF StoreRaises("weather", records)
       THEN /\ db' = AtomicExit(db, tx, TRUE)
            /\ tx' = db'
            /\ stats' = [stats EXCEPT !.errors = @ + errors + Len(records)]
            /\ failures' = failures \cup
                               {[stage |-> "weather", start |-> start_idx]}
       ELSE LET w == Write(db, tx, "weather", records) IN
            /\ db' = AtomicExit(w.db, w.tx, FALSE)
            /\ tx' = db'
            /\ stats' = [stats EXCEPT !.weather_records = @ + Len(records),
                                      !.errors = @ + errors]
            /\ failures' = failures
    /\ committed' = db'
    /\ start_idx' = NextIdx
    /\ pc' = IF NextIdx < Len(table.rows) THEN "weather" ELSE "finish"
    /\ UNCHANGED <<kind, table, batch_size, countries, dry_run, history,
                   report_vars>>

\* import_weather_data, lines 206-209: a batch of a dry run
CountWeatherBatch ==
    /\ pc = "count"
    /\ kind = "weather"
    /\ stats' = [stats EXCEPT
          !.weather_records = @ + count_weather_records(Batch, country_mapping)]
    /\ start_idx' = NextIdx
    /\ pc' = IF NextIdx < Len(table.rows) THEN "count" ELSE "finish"
    /\ UNCHANGED <<kind, table, batch_size, countries, dry_run, db, tx,
                   committed, failures, history, report_vars>>

\* the fields of DataImportLog (energy_data/models.py)
DataImportLogFields ==
    {"source", "import_timestamp", "data_start_date", "data_end_date",
     "records_imported", "file_name", "success", "error_log"}

\* log_import_results of the OPSD importer: the row it asks for
import_log_entry(st) ==
    [source |-> "opsd",
     records_imported |->
         st.load_records + st.generation_records + st.price_records,
     records_failed |-> st.errors,
     success |-> (st.errors = 0)]

\* Model(**kwargs) raises a TypeError on a keyword that is no field
create_raises(fields, entry) == ~(DOMAIN entry \subseteq fields)

\* handle after the batches: the log entry (the weather importer's
\* log_import_results only prints) and the success message
HandleFinish ==
    /\ pc = "finish"
    /\ IF WritesEnabled(dry_run) /\ kind = "opsd"
       THEN IF create_raises(DataImportLogFields, import_log_entry(stats))
            THEN Abort("log", db)
            ELSE /\ db' = [db EXCEPT !.import_log =
                               Append(@, import_log_entry(stats))]
                 /\ tx' = db'
                 /\ committed' = db'
                 /\ pc' = "done"
                 /\ stats' = stats
                 /\ history' = Ended("ok", "none", db')
                 /\ UNCHANGED <<start_idx, failures>>
       ELSE /\ pc' = "done"
            /\ stats' = stats
            /\ history' = Ended("ok", "none", db)
            /\ UNCHANGED <<db, tx, committed, start_idx, failures>>
    /\ UNCHANGED <<kind, table, batch_size, countries, dry_run, report_vars>>

\* the report pipeline at rest
ReportQuiet ==
    /\ req = <<>>
    /\ logs = <<>>
    /\ reports = <<>>
    /\ files = <<>>
    /\ s3 = <<>>
    /\ now = 0
    /\ settings = [aws |-> FALSE, endpoint |-> FALSE]

\* a session of the importers: one source, one batch size, an empty store,
\* and up to MaxRuns commands on it, each a dry run or not
ImportInit ==
    /\ kind \in {"opsd", "weather"}
    /\ table \in TablesOver(IF kind = "opsd" THEN OpsdColumnLists
                            ELSE WeatherColumnLists)
    /\ batch_size \in 1..MaxBatch
    /\ countries \in IF kind = "opsd" THEN {<<>>}
                     ELSE {<<>>, << <<"d", "e">> >>}
    /\ dry_run = FALSE
    /\ pc = "idle"
    /\ start_idx = 0
    /\ stats = ZeroStats
    /\ db = EmptyDb
    /\ tx = EmptyDb
    /\ committed = EmptyDb
    /\ failures = {}
    /\ history = <<>>
    /\ ReportQuiet

ImportNext ==
    \/ \E dry \in BOOLEAN : StartCommand(dry)
    \/ ImportLoadData
    \/ ImportGenerationData
    \/ ImportPriceData
    \/ CountBatch
    \/ ProcessWeatherBatch
    \/ CountWeatherBatch
    \/ HandleFinish

SpecImport == ImportInit /\ [][ImportNext]_vars

\* ====================================================== the importer claims
\* import_data returned its counters in run h (it raised in no batch)
Returned(h) == h.outcome = "ok" \/ h.raised = "log"

DomainCounts(st) ==
    <<st.load_records, st.generation_records, st.price_records>>

\* the starts of the batches the running command has left
BatchStarts == {b \in 0..(start_idx - 1) : b % batch_size = 0}
FailedStarts == {f.start : f \in failures}
RowsOfBatch(b) == batch_df(table, b, batch_size)
RowsBefore(n) == SubSeq(table.rows, 1, n)

\* the records the OPSD importer builds from rows, per table
Built(tbl, rows) ==
    CASE tbl = "load" -> load_records(rows, column_mapping["load_data"])
      [] tbl = "generation" ->
             generation_records(rows, column_mapping["renewable_generation"],
                                column_mapping["capacity_data"])
      [] tbl = "price" -> price_records(rows, column_mapping["energy_prices"])

OpsdTables == {"load", "generation", "price"}
DataTables == {"load", "generation", "price", "weather"}

\* C1: for every table and batch size, the OPSD importer's dry run returns the
\* same load, generation and price counts as its run that writes.
C1_DryRunCountsEqual ==
    \A i, j \in DOMAIN history :
        (/\ history[i].kind = "opsd" /\ history[i].dry_run
         /\ history[j].kind = "opsd" /\ ~history[j].dry_run
         /\ Returned(history[i]) /\ Returned(history[j]))
        => DomainCounts(history[i].stats) = DomainCounts(history[j].stats)

\* C2: the three inserts of a batch are one atomic unit: while a batch is
\* open, and after one of its inserts raised, the persisted rows are those of
\* the moment the batch began; once a batch is left without an error every
\* record it built, of the three domains, is persisted.
C2_BatchAtomic ==
    /\ pc \in {"generation", "price"} => db = committed
    /\ (pc = "failed" /\ \E f \in failures : f.stage \in OpsdTables)
           => db = committed
    /\ (kind = "opsd" /\ ~dry_run /\ pc # "idle")
           => \A tbl \in OpsdTables :
                  Keys(tbl, Built(tbl, RowsBefore(start_idx)))
                      \subseteq Keys(tbl, db[tbl])

\* a batch failed in its price insert after its load insert had written rows
\* the store did not hold
C2_Witness ==
    /\ pc = "failed"
    /\ \E f \in failures : f.stage = "price"
    /\ ~(Keys("load", Built("load", Batch)) \subseteq Keys("load", db.load))

\* C3: when batch k fails, what batches 1..k-1 committed stays persisted and
\* only batch k is rolled back: the persisted keys are those the store held
\* before the command and those of the records of the batches that did not
\* fail.
C3_EarlierBatchesKept ==
    /\ (kind = "opsd" /\ pc = "failed"
            /\ \E f \in failures : f.stage \in OpsdTables)
           => /\ db = committed
              /\ \A tbl \in OpsdTables :
                     Keys(tbl, db[tbl]) =
                         Keys(tbl, history[Running].before[tbl])
                             \cup Keys(tbl, Built(tbl, RowsBefore(start_idx)))
    /\ (kind = "weather" /\ ~dry_run /\ pc \in {"weather", "finish", "done"})
           => Keys("weather", db.weather) =
                  Keys("weather", history[Running].before.weather)
                      \cup UNION { Keys("weather",
                                        weather_records(RowsOfBatch(b),
                                                        country_mapping)) :
                                   b \in BatchStarts \ FailedStarts }

\* the second batch of an OPSD import failed after the first had committed rows
C3_Witness ==
    /\ kind = "opsd"
    /\ pc = "failed"
    /\ \E f \in failures : f.stage \in OpsdTables /\ f.start > 0
    /\ Len(db.load) + Len(db.generation) + Len(db.price) > 0
    /\ Len(history) = 1

RowCounts(d) ==
    <<Len(d.load), Len(d.generation), Len(d.price), Len(d.weather)>>

\* C4: a second run that writes, over the same source with the same batch
\* size, leaves as many persisted rows as the first.
C4_RerunSameRowCount ==
    \A i, j \in DOMAIN history :
        (/\ i < j
         /\ ~history[i].dry_run /\ history[i].outcome # "running"
         /\ ~history[j].dry_run /\ history[j].outcome # "running")
        => RowCounts(history[j].after) = RowCounts(history[i].after)

\* two runs that write have ended and rows are persisted
C4_Witness ==
    /\ Len(history) = 2
    /\ \A i \in DOMAIN history :
           ~history[i].dry_run /\ history[i].outcome # "running"
    /\ Len(db.load) > 0

NoDuplicateKeys(tbl, rows) ==
    \A i, j \in DOMAIN rows : KeyOf(tbl, rows[i]) = KeyOf(tbl, rows[j]) => i = j

\* the open batch holds a value the store refuses, or one the importer cannot
\* compute with
BatchIsRefused ==
    \/ \E tbl \in OpsdTables : StoreRaises(tbl, Built(tbl, Batch))
    \/ generation_build_raises(Batch, column_mapping["renewable_generation"],
                               column_mapping["capacity_data"])

\* C5: a record whose natural key is already persisted is dropped: in every
\* step each persisted row keeps its place and all its field values, no two
\* rows come to share a key, and a batch with nothing the store refuses does
\* not fail.
C5_DuplicatesDropped ==
    [][ /\ \A tbl \in DataTables :
               /\ \A i \in DOMAIN db[tbl] :
                      i \in DOMAIN db'[tbl] /\ db'[tbl][i] = db[tbl][i]
               /\ NoDuplicateKeys(tbl, db'[tbl])
        /\ (pc \in {"load", "generation", "price"} /\ ~BatchIsRefused)
               => pc' # "failed" ]_vars

\* a run that writes has gone through all its batches, and it built a load
\* record whose key is persisted with other field values
C5_Witness ==
    /\ kind = "opsd"
    /\ ~dry_run
    /\ start_idx = Len(table.rows)
    /\ \E n \in DOMAIN Built("load", table.rows) :
           \E i \in DOMAIN db.load :
               /\ LoadKey(db.load[i]) = LoadKey(Built("load", table.rows)[n])
               /\ db.load[i] # Built("load", table.rows)[n]

\* C6: a dry run of either importer writes nothing: no step of a dry run
\* changes a persisted row of any table, the import log included.
C6_DryRunWritesNothing ==
    [][ dry_run' => db' = db ]_vars

\* a dry run has ended, it counted records, and the store holds rows
C6_Witness ==
    /\ pc = "done"
    /\ dry_run
    /\ stats.load_records + stats.weather_records > 0
    /\ Len(db.load) + Len(db.weather) > 0

\* ======================================================= the report pipeline
DefaultSampleSize == 50000   \* --sample-size default
DefaultWindowDays == 30      \* timedelta(days=30)

Requests == 1..MaxRequests

NoPath == <<>>               \* no file path, no URL yet

\* generate_profile_report: /tmp/energy_profile_<timestamp>.html
TempFile(t) == <<"tmp", t>>
\* save_report_locally: MEDIA_ROOT/analytics/data-profiles/energy_profile_<t>.html
LocalPath(t) == <<"media_root", t>>
\* ... and the URL it is served at: MEDIA_URL + the relative path
LocalUrl(t) == <<"media_url", t>>
\* upload_to_s3: analytics/data-profiles/<date>/<basename of the file>
S3Key(path) == <<"s3", path[2]>>
PresignedUrl(key) == <<"presigned", key[2]>>
DirectUrl(key) == <<"direct", key[2]>>

\* the file system: a function from the paths that exist to what they hold
WriteFile(fs, path, content) ==
    [p \in DOMAIN fs \cup {path} |-> IF p = path THEN content ELSE fs[p]]

RemoveFile(fs, path) == [p \in DOMAIN fs \ {path} |-> fs[p]]

\* shutil.move(src, dst), for a src that exists
MoveFile(fs, src, dst) == RemoveFile(WriteFile(fs, dst, fs[src]), src)

\* parse_date_range: end is the given date or the newest load row's, start the
\* given date or 30 days before end
Latest(rows) ==
    IF rows = <<>> THEN 0
    ELSE CHOOSE t \in {rows[i].utc_timestamp : i \in DOMAIN rows} :
             \A i \in DOMAIN rows : rows[i].utc_timestamp <= t

end_date(o, loads, t) ==
    IF o.end_date # 0 THEN o.end_date
    ELSE IF loads # <<>> THEN Latest(loads) ELSE t

start_date(o, loads, t) ==
    IF o.start_date # 0 THEN o.start_date
    ELSE end_date(o, loads, t) - DefaultWindowDays

\* extract_combined_data, lines 133-141: the load rows the filters keep
Matching(loads, o, t) ==
    {i \in DOMAIN loads :
        /\ loads[i].utc_timestamp >= start_date(o, loads, t)
        /\ loads[i].utc_timestamp <= end_date(o, loads, t)
        /\ \/ o.countries = <<>>
           \/ loads[i].country_code \in
                  {upper(c) : c \in Range(o.countries)}}

\* order_by('?')[:sample_size]: any sample_size of them, or all if fewer
Samples(loads, o, t) ==
    LET m == Matching(loads, o, t)
        n == IF Cardinality(m) < o.sample_size THEN Cardinality(m)
             ELSE o.sample_size
    IN {x \in SUBSET m : Cardinality(x) = n}

\* handle, line 72: a frame without rows never has its report generated
EmptyIgnored(df) == FALSE

Empty(df) == df = {}

\* a save that writes the status into every row (no row is named)
SaveLogAll(ls, r, status, message) ==
    [x \in DOMAIN ls |->
        [status |-> status, error_message |-> message, completed |-> TRUE]]

\* generate_report_async: log.status = ...; log.completed_at = ...; log.save()
SaveLog(ls, r, status, message) ==
    [ls EXCEPT ![r] =
        [status |-> status, error_message |-> message, completed |-> TRUE]]

\* save_report_locally without its try/except: a failed move raises
save_report_locally_raising(fs, temp_file_path, t, disk_ok) ==
    IF disk_ok /\ temp_file_path \in DOMAIN fs
    THEN [files |-> MoveFile(fs, temp_file_path, LocalPath(t)),
          url |-> LocalUrl(t), moved |-> TRUE, raised |-> FALSE]
    ELSE [files |-> fs, url |-> temp_file_path, moved |-> FALSE,
          raised |-> TRUE]

\* save_report_locally that returns the URL and leaves the file where it is
save_report_locally_unmoved(fs, temp_file_path, t, disk_ok) ==
    IF disk_ok /\ temp_file_path \in DOMAIN fs
    THEN [files |-> fs, url |-> LocalUrl(t), moved |-> TRUE,
          raised |-> FALSE]
    ELSE [files |-> fs, url |-> temp_file_path, moved |-> FALSE,
          raised |-> FALSE]

\* save_report_locally: move the file under MEDIA_ROOT and return its URL; on
\* any error (the directory cannot be made, the file is gone) return the
\* temporary path instead
save_report_locally(fs, temp_file_path, t, disk_ok) ==
    IF disk_ok /\ temp_file_path \in DOMAIN fs
    THEN [files |-> MoveFile(fs, temp_file_path, LocalPath(t)),
          url |-> LocalUrl(t), moved |-> TRUE, raised |-> FALSE]
    ELSE [files |-> fs, url |-> temp_file_path, moved |-> FALSE,
          raised |-> FALSE]

DefaultOptions ==
    [countries |-> <<>>, start_date |-> 0, end_date |-> 0,
     sample_size |-> DefaultSampleSize]

NewRequest ==
    [pc |-> "none",
     opts |-> DefaultOptions,
     load_data |-> {},
     report_path |-> NoPath,
     s3_url |-> NoPath,
     error |-> <<>>,
     s3_outcome |-> "none",
     local_outcome |-> "none",
     stages |-> {}]

\* handle's except branch without the wrapping: the exception is re-raised
\* as it is
RaiseBare(r, stage, text) ==
    [req EXCEPT ![r].pc = "raised",
                ![r].stages = @ \cup {stage},
                ![r].error = <<text>>]

\* the exception leaves handle as CommandError('Profiling failed: ...')
Raise(r, stage, text) ==
    [req EXCEPT ![r].pc = "raised",
                ![r].stages = @ \cup {stage},
                ![r].error = <<"Profiling failed: ", text>>]

\* generate_report_view (POST): create the log row, start the thread
GenerateReportView(r, o) ==
    /\ req[r].pc = "none"
    /\ \A q \in 1..(r - 1) : req[q].pc # "none"
    /\ req' = [req EXCEPT ![r].pc = "handle", ![r].opts = o]
    /\ logs' = [logs EXCEPT ![r] =
                   [status |-> "in_progress", error_message |-> <<>>,
                    completed |-> FALSE]]
    /\ UNCHANGED <<reports, files, s3, now, settings, db, import_vars>>

\* handle, lines 58-75: parse the options, extract, refuse an empty frame
HandleExtract(r) ==
    /\ req[r].pc = "handle"
    /\ \E sample \in Samples(db.load, req[r].opts, now) :
          req' = IF Empty(sample)
                 THEN Raise(r, "extract",
                            "No data found for the specified criteria")
                 ELSE [req EXCEPT ![r].pc = "generate",
                                  ![r].stages = @ \cup {"extract"},
                                  ![r].load_data = sample]
    /\ UNCHANGED <<logs, reports, files, s3, now, settings, db, import_vars>>

\* generate_profile_report: the profile, written to the temporary file
GenerateProfileReport(r, ok) ==
    /\ req[r].pc = "generate"
    /\ IF ok
       THEN /\ req' = [req EXCEPT ![r].pc = "upload",
                                  ![r].stages = @ \cup {"generate"},
                                  ![r].report_path = TempFile(now)]
            /\ files' = WriteFile(files, TempFile(now), r)
       ELSE /\ req' = Raise(r, "generate", "ProfileReport failed")
            /\ files' = files
    /\ UNCHANGED <<logs, reports, s3, now, settings, db, import_vars>>

\* the except branches of upload_to_s3 and its missing-settings branch: the
\* report goes to save_report_locally and what that returns is the s3_url
Fallback(r, outcome, disk_ok) ==
    LET res == save_report_locally(files, req[r].report_path, now, disk_ok)
    IN /\ files' = res.files
       /\ req' = IF res.raised
                 THEN [Raise(r, "upload", "save_report_locally failed")
                          EXCEPT ![r].s3_outcome = outcome,
                                 ![r].local_outcome = "raised"]
                 ELSE [req EXCEPT
                          ![r].pc = "metadata",
                          ![r].stages = @ \cup {"upload"},
                          ![r].s3_outcome = outcome,
                          ![r].local_outcome =
                              IF res.moved THEN "moved" ELSE "failed",
                          ![r].s3_url = res.url]

\* upload_to_s3 up to the clean-up: the settings, upload_file, the URL
UploadToS3(r, transfer, presigned, disk_ok) ==
    /\ req[r].pc = "upload"
    /\ LET path == req[r].report_path
           key == S3Key(path)
       IN IF ~settings.aws
          THEN Fallback(r, "missing_settings", disk_ok) /\ s3' = s3
          ELSE IF path \notin DOMAIN files
          THEN \* upload_file cannot open the file
               Fallback(r, "error", disk_ok) /\ s3' = s3
          ELSE IF transfer # "ok"
          THEN Fallback(r, transfer, disk_ok) /\ s3' = s3
          ELSE /\ s3' = WriteFile(s3, key, files[path])
               /\ IF presigned
                  THEN /\ req' = [req EXCEPT
                                     ![r].pc = "cleanup",
                                     ![r].s3_outcome = "ok",
                                     ![r].s3_url = PresignedUrl(key)]
                       /\ files' = files
                  ELSE IF settings.endpoint
                  THEN \* line 399 reads use_ssl, a name nothing defines
                       Fallback(r, "presign_nameerror", disk_ok)
                  ELSE /\ req' = [req EXCEPT
                                     ![r].pc = "cleanup",
                                     ![r].s3_outcome = "ok",
                                     ![r].s3_url = DirectUrl(key)]
                       /\ files' = files
    /\ UNCHANGED <<logs, reports, now, settings, db, import_vars>>

\* upload_to_s3, line 405: os.remove(file_path); when the file is gone the
\* FileNotFoundError lands in except Exception like any upload error
CleanUp(r, disk_ok) ==
    /\ req[r].pc = "cleanup"
    /\ IF req[r].report_path \in DOMAIN files
       THEN /\ files' = RemoveFile(files, req[r].report_path)
            /\ req' = [req EXCEPT ![r].pc = "metadata",
                                  ![r].stages = @ \cup {"upload"}]
       ELSE Fallback(r, "ok", disk_ok)
    /\ UNCHANGED <<logs, reports, s3, now, settings, db, import_vars>>

\* save_report_metadata: DataProfilingReport.objects.create(...), which
\* raises when the database refuses the row
SaveReportMetadata(r, ok) ==
    /\ req[r].pc = "metadata"
    /\ IF ok
       THEN /\ reports' = Append(reports,
                   [request |-> r,
                    report_url |-> req[r].s3_url,
                    countries |-> req[r].opts.countries,
                    start_date |-> start_date(req[r].opts, db.load, now),
                    end_date |-> end_date(req[r].opts, db.load, now),
                    record_count |-> Cardinality(req[r].load_data)])
            /\ req' = [req EXCEPT ![r].pc = "returned",
                                  ![r].stages = @ \cup {"metadata"}]
       ELSE /\ reports' = reports
            /\ req' = Raise(r, "metadata", "create failed")
    /\ UNCHANGED <<logs, files, s3, now, settings, db, import_vars>>

\* generate_report_async after call_command: the one save of the log row
ThreadFinish(r) ==
    /\ req[r].pc \in {"returned", "raised"}
    /\ logs' = IF req[r].pc = "returned"
               THEN SaveLog(logs, r, "success", <<>>)
               ELSE SaveLog(logs, r, "failed", req[r].error)
    /\ req' = [req EXCEPT ![r].pc = "ended"]
    /\ UNCHANGED <<reports, files, s3, now, settings, db, import_vars>>

\* a second passes
Tick ==
    /\ now < MaxClock
    /\ now' = now + 1
    /\ UNCHANGED <<req, logs, reports, files, s3, settings, db, import_vars>>

\* the load rows the store holds when the requests arrive
LoadRow(code, ts) ==
    [utc_timestamp |-> ts, country_code |-> code,
     actual_load_mw |-> Num(1), forecast_load_mw |-> NULL]

Stores ==
    { <<>>,
      << LoadRow(DE, 1) >>,
      << LoadRow(DE, 1), LoadRow(FR, 2) >> }

\* the forms submitted: all defaults; one country; a start date; a sample of
\* one row
OptionSets ==
    { DefaultOptions,
      [DefaultOptions EXCEPT !.countries = << <<"f", "r">> >>],
      [DefaultOptions EXCEPT !.start_date = 2],
      [DefaultOptions EXCEPT !.sample_size = 1] }

ImportQuiet ==
    /\ kind = "opsd"
    /\ table = [cols |-> <<>>, rows |-> <<>>]
    /\ batch_size = 1
    /\ countries = <<>>
    /\ dry_run = FALSE
    /\ pc = "idle"
    /\ start_idx = 0
    /\ stats = ZeroStats
    /\ tx = db
    /\ committed = db
    /\ failures = {}
    /\ history = <<>>

ReportInit ==
    /\ db \in {[EmptyDb EXCEPT !.load = l] : l \in Stores}
    /\ ImportQuiet
    /\ settings \in [aws : BOOLEAN, endpoint : BOOLEAN]
    /\ req = [r \in Requests |-> NewRequest]
    /\ logs = [r \in Requests |->
                 [status |-> "none", error_message |-> <<>>,
                  completed |-> FALSE]]
    /\ reports = <<>>
    /\ files = <<>>
    /\ s3 = <<>>
    /\ now = 0

ReportNext ==
    \/ \E r \in Requests, o \in OptionSets : GenerateReportView(r, o)
    \/ \E r \in Requests : HandleExtract(r)
    \/ \E r \in Requests, ok \in BOOLEAN : GenerateProfileReport(r, ok)
    \/ \E r \in Requests, transfer \in {"ok", "client_error", "error"},
          presigned \in BOOLEAN, disk_ok \in BOOLEAN :
          UploadToS3(r, transfer, presigned, disk_ok)
    \/ \E r \in Requests, disk_ok \in BOOLEAN : CleanUp(r, disk_ok)
    \/ \E r \in Requests, ok \in BOOLEAN : SaveReportMetadata(r, ok)
    \/ \E r \in Requests : ThreadFinish(r)
    \/ Tick

SpecReport == ReportInit /\ [][ReportNext]_vars

\* ==================================================== the pipeline's claims
Status(r) == logs[r].status

Terminal(status) == status \in {"success", "failed"}

\* the Report Records the request r created
RecordsOf(r) == {i \in DOMAIN reports : reports[i].request = r}

\* upload_to_s3 of request r found the object-store write failing: settings
\* missing, a ClientError, or any other error in the transfer
ObjectStoreFailed(r) ==
    req[r].s3_outcome \in {"missing_settings", "client_error", "error"}

\* the request went through the local fallback after such a failure
FellBack(r) == ObjectStoreFailed(r) /\ req[r].local_outcome # "none"

\* the metadata write of request r raised
MetadataRaised(r) ==
    /\ "metadata" \in req[r].stages
    /\ req[r].error = <<"Profiling failed: ", "create failed">>

IsLocalUrl(url) == url # NoPath /\ url[1] = "media_url"

C10_TerminalAbsorbing ==
    [][ \A r \in Requests :
           Terminal(Status(r)) => logs'[r].status = Status(r) ]_vars

\* one request ended success, another ended failed
C10_Witness ==
    \E r, q \in Requests :
        /\ Status(r) = "success"
        /\ Status(q) = "failed"
        /\ req[r].pc = "ended"
        /\ req[q].pc = "ended"

\* ================================================= the log's status machine
\* the status changes the state machine of the specification allows
StagedTransitions ==
    { <<"none", "queued">>, <<"queued", "extracting">>,
      <<"extracting", "merging">>, <<"merging", "generating">>,
      <<"generating", "uploading">>, <<"uploading", "success">> }
    \cup { <<s, "failed">> :
             s \in {"queued", "extracting", "merging", "generating",
                    "uploading"} }

\* the status changes of STATUS_CHOICES: a row is created in_progress and
\* saved once as success or failed
StatusTransitions ==
    { <<"none", "in_progress">>, <<"in_progress", "success">>,
      <<"in_progress", "failed">> }

\* C11 as stated: the status of every request passes through queued,
\* extracting, merging, generating and uploading in this order before
\* success, may move to failed from any of them, and changes in no other way.
C11_StagedStatus ==
    [][ \A r \in Requests :
           logs'[r].status # logs[r].status =>
               <<logs[r].status, logs'[r].status>> \in StagedTransitions
      ]_vars

\* C11, amended: the status of every request is in_progress from the
\* creation of its Generation Log, whatever stage the pipeline is in, and
\* changes once, to success or to failed; no other transition occurs.
C11_StatusMachine ==
    [][ \A r \in Requests :
           /\ logs'[r].status # logs[r].status =>
                 <<logs[r].status, logs'[r].status>> \in StatusTransitions
           /\ req'[r].pc \in {"handle", "generate", "upload", "cleanup",
                              "metadata", "returned", "raised"} =>
                 logs'[r].status = "in_progress"
      ]_vars

\* a request went through every stage and is success while another is in
\* its upload stage, still in_progress
C11_Witness ==
    \E r, q \in Requests :
        /\ Status(r) = "success"
        /\ req[r].stages = {"extract", "generate", "upload", "metadata"}
        /\ req[q].pc = "upload"
        /\ Status(q) = "in_progress"

\* =================================================== the background thread
\* str(e) of the exception a failed log.save() raises
SaveError == <<"database error">>

\* the pipeline positions in which the thread of a request is alive
Alive == {"handle", "generate", "upload", "cleanup", "metadata", "returned",
          "raised"}

\* generate_report_async, with log.save() raising or not: after
\* call_command returned, status SUCCESS is saved, and if that save raises
\* the except branch saves FAILED with the save's error; after call_command
\* raised, the except branch saves FAILED with str(e). A save that raises in
\* the except branch leaves the thread with the row as it was.
GenerateReportAsync(r, saved, saved_again) ==
    /\ req[r].pc \in {"returned", "raised"}
    /\ IF req[r].pc = "returned" /\ saved
       THEN /\ logs' = SaveLog(logs, r, "success", <<>>)
            /\ req' = [req EXCEPT ![r].pc = "ended"]
       ELSE IF req[r].pc = "returned" /\ saved_again
       THEN /\ logs' = SaveLog(logs, r, "failed", SaveError)
            /\ req' = [req EXCEPT ![r].pc = "ended"]
       ELSE IF req[r].pc = "raised" /\ saved
       THEN /\ logs' = SaveLog(logs, r, "failed", req[r].error)
            /\ req' = [req EXCEPT ![r].pc = "ended"]
       ELSE /\ logs' = logs
            /\ req' = [req EXCEPT ![r].pc = "died"]
    /\ UNCHANGED <<reports, files, s3, now, settings, db, import_vars>>

\* thread.daemon = True: when the server process exits, the threads still
\* running are stopped where they are
ProcessExit ==
    /\ \E r \in Requests : req[r].pc \in Alive
    /\ req' = [r \in Requests |->
                 IF req[r].pc \in Alive THEN [req[r] EXCEPT !.pc = "killed"]
                 ELSE req[r]]
    /\ UNCHANGED <<logs, reports, files, s3, now, settings, db, import_vars>>

\* the next step of the thread of request r
ThreadStep(r) ==
    \/ HandleExtract(r)
    \/ \E ok \in BOOLEAN : GenerateProfileReport(r, ok)
    \/ \E transfer \in {"ok", "client_error", "error"},
          presigned \in BOOLEAN, disk_ok \in BOOLEAN :
          UploadToS3(r, transfer, presigned, disk_ok)
    \/ \E disk_ok \in BOOLEAN : CleanUp(r, disk_ok)
    \/ \E ok \in BOOLEAN : SaveReportMetadata(r, ok)
    \/ \E saved \in BOOLEAN, saved_again \in BOOLEAN :
          GenerateReportAsync(r, saved, saved_again)

ThreadInit == ReportInit

ThreadNext ==
    \/ \E r \in Requests : GenerateReportView(r, DefaultOptions)
    \/ \E r \in Requests : ThreadStep(r)
    \/ ProcessExit
    \/ Tick

\* a thread that can take its next step takes it: every external call
\* returns or raises, and the interpreter schedules every thread
ThreadFairness == \A r \in Requests : WF_vars(ThreadStep(r))

SpecThread == ThreadInit /\ [][ThreadNext]_vars /\ ThreadFairness

\* --------------------------------------------------- the thread's claims
\* the text of the exception the failing stage of request r raised
RaisedText(r) ==
    IF req[r].stages = {"extract"}
    THEN "No data found for the specified criteria"
    ELSE IF req[r].stages = {"extract", "generate"}
    THEN "ProfileReport failed"
    ELSE "create failed"

\* a stage of request r raised and its thread has finished
RaisedAndFinished(r) == req[r].error # <<>> /\ req[r].pc = "ended"

C13_EventuallyTerminal ==
    \A r \in Requests : (Status(r) = "in_progress") ~> Terminal(Status(r))

\* ================================================== unusable source files
\* A source file: a table, whether pandas can read the file at all, and
\* which of the timestamp columns its header has.
Stamps == {utc_timestamp, cet_cest_timestamp}

\* one more header of a weather file: no temperature, no radiation column
HumidityColumns == << <<DE, "humidity">> >>

SourcesOver(lists) ==
    { [cols |-> t.cols, rows |-> t.rows, readable |-> rd, stamps |-> st] :
        t \in {x \in TablesOver(lists) : Len(x.rows) <= MaxSourceRows},
        rd \in BOOLEAN, st \in SUBSET Stamps }

\* read_csv_file raises: the file cannot be read, parse_dates names a column
\* the file lacks (OPSD), or df['utc_timestamp'] is a KeyError (weather)
read_raises(k, src) ==
    \/ ~src.readable
    \/ k = "opsd" /\ src.stamps # Stamps
    \/ k = "weather" /\ utc_timestamp \notin src.stamps

\* '_temperature' in col, '_radiation_' in col
IsTemperatureColumn(col) ==
    \E i \in 2..Len(col) : col[i] = "temperature"

IsRadiationColumn(col) ==
    \E i \in 2..(Len(col) - 1) : col[i] = "radiation"

\* validate_csv_structure raises
validate_raises(k, src) ==
    IF k = "opsd" THEN src.stamps # Stamps
    ELSE \/ utc_timestamp \notin src.stamps
         \/ \A i \in DOMAIN src.cols :
               /\ ~IsTemperatureColumn(src.cols[i])
               /\ ~IsRadiationColumn(src.cols[i])

\* a handle that goes on to the import whatever the source is
SourceAcceptedUnchecked(k, src) == TRUE

\* handle, lines 54-60: the import starts only when neither raised
SourceAccepted(k, src) == ~read_raises(k, src) /\ ~validate_raises(k, src)

\* handle with a source it refuses: CommandError before import_data
RejectSource(dry) ==
    /\ pc \in {"idle", "done", "failed"}
    /\ Len(history) < MaxRuns
    /\ ~SourceAccepted(kind, table)
    /\ dry_run' = dry
    /\ pc' = "failed"
    /\ history' = Append(history,
           [kind |-> kind, dry_run |-> dry, outcome |-> "failed",
            raised |-> IF read_raises(kind, table) THEN "read"
                       ELSE "validate",
            stats |-> ZeroStats, before |-> db, after |-> db])
    /\ UNCHANGED <<kind, table, batch_size, countries, start_idx, stats, db,
                   tx, committed, failures, report_vars>>

\* the store when the command runs: empty, or holding an earlier import
EarlierStores ==
    { EmptyDb,
      [EmptyDb EXCEPT
          !.load = << [utc_timestamp |-> 1, country_code |-> DE,
                       actual_load_mw |-> Num(1),
                       forecast_load_mw |-> NULL] >>] }

SourceInit ==
    /\ kind \in {"opsd", "weather"}
    /\ table \in SourcesOver(IF kind = "opsd" THEN OpsdColumnLists
                             ELSE WeatherColumnLists \cup {HumidityColumns})
    /\ batch_size \in 1..MaxBatch
    /\ countries = <<>>
    /\ dry_run = FALSE
    /\ pc = "idle"
    /\ start_idx = 0
    /\ stats = ZeroStats
    /\ db \in EarlierStores
    /\ tx = db
    /\ committed = db
    /\ failures = {}
    /\ history = <<>>
    /\ ReportQuiet

\* handle with a source it accepts
AcceptSource(dry) == SourceAccepted(kind, table) /\ StartCommand(dry)

SourceNext ==
    \/ \E dry \in BOOLEAN : RejectSource(dry)
    \/ \E dry \in BOOLEAN : AcceptSource(dry)
    \/ ImportLoadData
    \/ ImportGenerationData
    \/ ImportPriceData
    \/ CountBatch
    \/ ProcessWeatherBatch
    \/ CountWeatherBatch
    \/ HandleFinish

SpecSource == SourceInit /\ [][SourceNext]_vars

\* the source is unreadable or lacks a timestamp column its importer requires
BadSource ==
    \/ ~table.readable
    \/ utc_timestamp \notin table.stamps
    \/ kind = "opsd" /\ cet_cest_timestamp \notin table.stamps

\* C14: with a source that is unreadable or lacks a required timestamp
\* column, no step of the importer changes the persisted state, and every
\* run ends failed with the state it was started in.
C14_BadSourceWritesNothing ==
    [][ BadSource =>
           /\ db' = db
           /\ history' # history =>
                 /\ history'[Len(history')].outcome = "failed"
                 /\ history'[Len(history')].after =
                        history'[Len(history')].before
                 /\ history'[Len(history')].after = db
      ]_vars

\* a run on a bad source has failed over a store that holds an earlier import
C14_Witness ==
    /\ BadSource
    /\ db # EmptyDb
    /\ Len(history) = MaxRuns
    /\ \A i \in DOMAIN history :
          history[i].outcome = "failed" /\ history[i].raised = "read"

\* ============================================ fields that are not numbers
\* the entities of the source: the countries the importer builds records for
Entities ==
    IF kind = "opsd" THEN {table.cols[i][1] : i \in DOMAIN table.cols}
    ELSE {country_mapping[k].country_code : k \in DOMAIN country_mapping}

\* a cell of this row in a data column of this entity is text, not a number
HasBadField(row, code) ==
    \E i \in DOMAIN table.cols :
        /\ IF kind = "opsd" THEN table.cols[i][1] = code
           ELSE upper(table.cols[i][1]) = code
        /\ Get(row, table.cols[i]) = BAD

\* the rows and entities whose record has a field that cannot be parsed
BadPairs ==
    {x \in (DOMAIN table.rows) \X Entities :
        HasBadField(table.rows[x[1]], x[2])}

\* every country code of the source fits the country_code column
CodesFit == \A code \in Entities : Len(code) <= MaxCodeLen

\* C15: a written run of either importer over a source whose only defects
\* are fields that are not numbers does not abort in a batch; it goes
\* through every batch and its error counter is the number of records (row
\* and entity) that had such a field.
C15_BadFieldSkipsRecord ==
    \A i \in DOMAIN history :
        (history[i].outcome # "running" /\ ~history[i].dry_run /\ CodesFit)
            => /\ history[i].raised \in {"none", "log"}
               /\ history[i].stats.errors = Cardinality(BadPairs)

\* ========================================================= the import log
\* every batch of the run was committed: no insert raised
BatchesCommitted(h) == h.raised \notin {"load", "generation", "price"}

\* C16: a written OPSD run whose batches all commit ends successfully with
\* exactly one import log entry more than before, whose records_imported is
\* the sum of the run's load, generation and price counters; a dry run
\* leaves the import log as it was.
C16_OneImportLogEntry ==
    \A i \in DOMAIN history :
        LET h == history[i] IN
        (h.kind = "opsd" /\ h.outcome # "running" /\ BatchesCommitted(h)) =>
            IF h.dry_run
            THEN h.after.import_log = h.before.import_log
            ELSE /\ h.outcome = "ok"
                 /\ Len(h.after.import_log) = Len(h.before.import_log) + 1
                 /\ h.after.import_log[Len(h.after.import_log)]
                        .records_imported =
                       h.stats.load_records + h.stats.generation_records
                           + h.stats.price_records

\* ============================== the classifier and the builders, by input
\* Column names the classifier is given: names of one rule, names more than
\* one rule matches, names no rule matches, a name without an underscore.
ColumnNames ==
    { <<DE, "load", "actual">>, <<DE, "load", "forecast">>,
      <<FR, "load", "actual">>,
      <<DE, "50hertz", "load", "actual">>,
      <<DE, "solar", "generation", "actual">>,
      <<DE, "solar", "capacity">>,
      <<GB, "price", "day", "ahead">>,
      <<DE, "load", "actual", "capacity">>,
      <<DE, "load", "forecast", "generation", "actual">>,
      <<DE, "solar", "generation", "actual", "capacity">>,
      <<DE, "capacity", "price", "day", "ahead">>,
      <<DE, "wind", "speed">>,
      << <<"i", "d">> >> }

\* the headers: up to MaxCols distinct data columns (pandas renames a
\* repeated name), in any order
Headers ==
    UNION { {h \in [1..n -> ColumnNames] :
                \A i, j \in 1..n : i # j => h[i] # h[j]} : n \in 0..MaxCols }

\* what the builders are given: headers with load columns (an entity with
\* two columns of one kind among them), and a generation column with and
\* without its capacity column
LoadHeaders ==
    { << <<DE, "load", "actual">>, <<DE, "load", "forecast">>,
         <<FR, "load", "actual">> >>,
      << <<DE, "load", "actual">>, <<DE, "50hertz", "load", "actual">> >> }

GenerationHeaders ==
    { << <<DE, "solar", "generation", "actual">>, <<DE, "solar", "capacity">> >>,
      << <<DE, "solar", "generation", "actual">>, <<FR, "solar", "capacity">> >> }

LoadValues == {NULL, Num(1), Num(2)}
GenerationValues == {NULL, Num(0 - 1), Num(0), Num(1), Num(2), BAD}

RowsWith(c, values) ==
    UNION { [1..n -> [ts : 1..MaxTs, val : [Range(c) -> values]]] :
            n \in 1..MaxBuildRows }

BuildTables ==
    { [cols |-> h, rows |-> <<>>] : h \in Headers }
    \cup UNION { { [cols |-> h, rows |-> r] : r \in RowsWith(h, LoadValues) } :
                 h \in LoadHeaders }
    \cup UNION { { [cols |-> h, rows |-> r] :
                     r \in RowsWith(h, GenerationValues) } :
                 h \in GenerationHeaders }

\* the classifier, then the two builders, each on the whole table; every
\* result is kept in history
ClassifyColumns ==
    /\ pc = "idle"
    /\ history' = <<[op |-> "classify", out |-> column_mapping]>>
    /\ pc' = "classified"
    /\ UNCHANGED <<kind, table, batch_size, countries, dry_run, start_idx,
                   stats, db, tx, committed, failures, report_vars>>

BuildLoadRecords ==
    /\ pc = "classified"
    /\ history' = Append(history,
           [op |-> "load",
            out |-> load_records(table.rows, history[1].out["load_data"])])
    /\ pc' = "load built"
    /\ UNCHANGED <<kind, table, batch_size, countries, dry_run, start_idx,
                   stats, db, tx, committed, failures, report_vars>>

BuildGenerationRecords ==
    /\ pc = "load built"
    /\ LET generation_columns == history[1].out["renewable_generation"]
           capacity_columns == history[1].out["capacity_data"]
       IN history' = Append(history,
              IF generation_build_raises(table.rows, generation_columns,
                                         capacity_columns)
              THEN [op |-> "generation raised", out |-> <<>>]
              ELSE [op |-> "generation",
                    out |-> generation_records(table.rows, generation_columns,
                                               capacity_columns)])
    /\ pc' = "built"
    /\ UNCHANGED <<kind, table, batch_size, countries, dry_run, start_idx,
                   stats, db, tx, committed, failures, report_vars>>

BuildInit ==
    /\ kind = "opsd"
    /\ table \in BuildTables
    /\ batch_size = 1
    /\ countries = <<>>
    /\ dry_run = FALSE
    /\ pc = "idle"
    /\ start_idx = 0
    /\ stats = ZeroStats
    /\ db = EmptyDb
    /\ tx = EmptyDb
    /\ committed = EmptyDb
    /\ failures = {}
    /\ history = <<>>
    /\ ReportQuiet

BuildNext ==
    \/ ClassifyColumns
    \/ BuildLoadRecords
    \/ BuildGenerationRecords

SpecBuild == BuildInit /\ [][BuildNext]_vars

\* ------------------------------------------------ the classifier's claims
\* the result of the classifier, once it ran
Classified == pc # "idle"
Mapping == history[1].out

\* in how many places of the buckets the column stands
Occurrences(m, c) ==
    Cardinality({x \in UNION {{b} \X DOMAIN m[b] : b \in DOMAIN m} :
                    m[x[1]][x[2]] = c})

\* C17 as stated: every column of the input stands in exactly one place of
\* exactly one bucket.
C17_EveryColumnOnce ==
    Classified =>
        \A c \in Range(Columns(table)) : Occurrences(Mapping, c) = 1

\* C17, amended: every column of the input other than the two timestamp
\* columns stands in exactly one place of exactly one bucket (load,
\* generation, capacity, price or ignored); the timestamp columns
\* utc_timestamp and cet_cest_timestamp stand in none.
C17_EveryDataColumnOnce ==
    Classified =>
        /\ \A c \in Range(table.cols) : Occurrences(Mapping, c) = 1
        /\ \A c \in Stamps : Occurrences(Mapping, c) = 0

\* a header with a column that two rules match, classified
C17_Witness ==
    /\ Classified
    /\ Len(table.cols) = MaxCols
    /\ <<DE, "load", "actual", "capacity">> \in Range(table.cols)
    /\ Len(Mapping["load_data"]) = 1
    /\ Len(Mapping["ignored"]) = 1

\* the rules in their priority order
Rules ==
    << [bucket |-> "load_data",
        patterns |-> {<<"load", "actual">>, <<"load", "forecast">>}],
       [bucket |-> "renewable_generation",
        patterns |-> {<<"generation", "actual">>}],
       [bucket |-> "capacity_data", patterns |-> {<<"capacity">>}],
       [bucket |-> "energy_prices",
        patterns |-> {<<"price", "day", "ahead">>}] >>

\* the rules that match the part of the column after the entity prefix
Matching_rules(c) ==
    {k \in DOMAIN Rules :
        /\ Len(c) >= 2
        /\ \E p \in Rules[k].patterns : Contains(Tail(c), p)}

\* C18: every data column stands in the bucket of the first rule, in the
\* order load, generation, capacity, price, that matches its part after the
\* entity prefix, and in ignored when no rule matches.
C18_FirstRuleWins ==
    Classified =>
        \A c \in Range(table.cols) :
            LET hits == Matching_rules(c)
                expected ==
                    IF hits = {} THEN "ignored"
                    ELSE Rules[CHOOSE k \in hits : \A j \in hits : k <= j]
                             .bucket
            IN /\ c \in Range(Mapping[expected])
               /\ \A b \in DOMAIN Mapping :
                     c \in Range(Mapping[b]) => b = expected

\* a column that the capacity and the price rule match was classified next
\* to one that the load and the generation rule match
C18_Witness ==
    /\ Classified
    /\ \E c, d \in Range(table.cols) :
          /\ Matching_rules(c) = {3, 4}
          /\ c \in Range(Mapping["capacity_data"])
          /\ Matching_rules(d) = {1, 2}
          /\ d \in Range(Mapping["load_data"])

\* --------------------------------------------------- the builders' claims
LoadBuilt == \E n \in DOMAIN history : history[n].op = "load"
LoadOut == history[2].out

\* the entities with load columns, and an entity's load columns
LoadEntities ==
    {c[1] : c \in {x \in Range(table.cols) : Bucket(x) = "load_data"}}

LoadColumnsOf(code) ==
    {c \in Range(table.cols) : Bucket(c) = "load_data" /\ c[1] = code}

\* the rows with this timestamp in which the entity has a load value
RowsWithLoad(code, ts) ==
    {i \in DOMAIN table.rows :
        /\ table.rows[i].ts = ts
        /\ \E c \in LoadColumnsOf(code) : ~IsNa(Get(table.rows[i], c))}

\* C19: for every entity with load columns and every timestamp, the builder
\* makes one load record per row in which one of the entity's actual and
\* forecast values is not null, and none for the other rows; the values of
\* a record are values of its own entity's columns in such a row.
C19_OneLoadRecordPerEntity ==
    LoadBuilt =>
        \A code \in LoadEntities, ts \in 1..MaxTs :
            LET records == {n \in DOMAIN LoadOut :
                               /\ LoadOut[n].country_code = code
                               /\ LoadOut[n].utc_timestamp = ts}
            IN /\ Cardinality(records) = Cardinality(RowsWithLoad(code, ts))
               /\ \A n \in records :
                     \A v \in {LoadOut[n].actual_load_mw,
                               LoadOut[n].forecast_load_mw} \ {NULL} :
                         \E i \in RowsWithLoad(code, ts),
                            c \in LoadColumnsOf(code) :
                             Get(table.rows[i], c) = v

GenerationBuilt == \E n \in DOMAIN history : history[n].op = "generation"
GenerationOut == history[3].out

\* C20: in every generation record built, the capacity factor is null when
\* the capacity is missing, null, zero or negative, and is generation
\* divided by capacity otherwise; no record holds a division by zero.
C20_CapacityFactor ==
    GenerationBuilt =>
        \A n \in DOMAIN GenerationOut :
            LET r == GenerationOut[n] IN
            /\ (r.capacity_mw = NULL \/ r.capacity_mw[2] <= 0) =>
                   r.capacity_factor = NULL
            /\ (r.capacity_mw # NULL /\ r.capacity_mw[2] > 0) =>
                   r.capacity_factor =
                       <<"ratio", r.actual_generation_mw[2], r.capacity_mw[2]>>
            /\ r.capacity_factor # NULL => r.capacity_factor[3] # 0
            /\ <<r.country_code, "solar", "capacity">> \notin Range(table.cols)
                   => r.capacity_mw = NULL

\* a record was built over a capacity of zero, without a factor
C20_Witness ==
    /\ GenerationBuilt
    /\ Len(GenerationOut) = 1
    /\ GenerationOut[1].capacity_mw = Num(0)
    /\ GenerationOut[1].capacity_factor = NULL

\* ================================== the weather record builder, by input
\* headers: the three variables of one country; two countries; a country
\* without a temperature column
WeatherHeaders ==
    { << <<DE, "temperature">>,
         <<DE, "radiation", "direct", "horizontal">>,
         <<DE, "radiation", "diffuse", "horizontal">> >>,
      << <<DE, "temperature">>,
         <<FR, "radiation", "direct", "horizontal">> >>,
      << <<DE, "radiation", "direct", "horizontal">>,
         <<DE, "radiation", "diffuse", "horizontal">> >> }

WeatherValues == {NULL, Num(1), Num(2), BAD}

\* the tables over some headers, with cells of some values
TablesWith(headers, values) ==
    UNION { { [cols |-> h, rows |-> r] : r \in RowsWith(h, values) } :
            h \in headers }

\* parse_weather_columns, then the two passes over the whole table: the one
\* that builds the records and the one that counts them
ParseWeatherColumns ==
    /\ pc = "idle"
    /\ history' = <<[op |-> "parse", out |-> country_mapping]>>
    /\ pc' = "parsed"
    /\ UNCHANGED <<kind, table, batch_size, countries, dry_run, start_idx,
                   stats, db, tx, committed, failures, report_vars>>

BuildWeatherRecords ==
    /\ pc = "parsed"
    /\ history' = Append(history,
           [op |-> "weather",
            out |-> weather_records(table.rows, history[1].out),
            errors |-> weather_errors(table.rows, history[1].out)])
    /\ pc' = "weather built"
    /\ UNCHANGED <<kind, table, batch_size, countries, dry_run, start_idx,
                   stats, db, tx, committed, failures, report_vars>>

CountWeatherRecords ==
    /\ pc = "weather built"
    /\ history' = Append(history,
           [op |-> "count",
            out |-> count_weather_records(table.rows, history[1].out)])
    /\ pc' = "counted"
    /\ UNCHANGED <<kind, table, batch_size, countries, dry_run, start_idx,
                   stats, db, tx, committed, failures, report_vars>>

WeatherInit ==
    /\ kind = "weather"
    /\ table \in TablesWith(WeatherHeaders, WeatherValues)
    /\ batch_size = 1
    /\ countries = <<>>
    /\ dry_run = FALSE
    /\ pc = "idle"
    /\ start_idx = 0
    /\ stats = ZeroStats
    /\ db = EmptyDb
    /\ tx = EmptyDb
    /\ committed = EmptyDb
    /\ failures = {}
    /\ history = <<>>
    /\ ReportQuiet

WeatherNext ==
    \/ ParseWeatherColumns
    \/ BuildWeatherRecords
    \/ CountWeatherRecords

SpecWeather == WeatherInit /\ [][WeatherNext]_vars

\* ------------------------------------------- the weather builder's claims
WeatherBuilt == Len(history) >= 2
WeatherOut == history[2].out

\* the cell of a variable of a country in a row: the column is named by
\* the header, not by the builder's mapping
CellOf(row, code, variable) ==
    IF <<code>> \o variable \in Range(table.cols)
    THEN row.val[<<code>> \o variable] ELSE NULL

TemperatureOf(row, code) == CellOf(row, code, <<"temperature">>)
DirectOf(row, code) == CellOf(row, code, <<"radiation", "direct", "horizontal">>)
DiffuseOf(row, code) ==
    CellOf(row, code, <<"radiation", "diffuse", "horizontal">>)

WeatherEntities == {c[1] : c \in Range(table.cols)}

\* a field of the row and country is text, not a number
Unparsable(row, code) ==
    BAD \in {TemperatureOf(row, code), DirectOf(row, code),
             DiffuseOf(row, code)}

\* the irradiance the claim names
IrradianceOf(row, code) ==
    LET direct == DirectOf(row, code)
        diffuse == DiffuseOf(row, code)
    IN  CASE direct[1] = "num" /\ diffuse[1] = "num" ->
                 Num(direct[2] + diffuse[2])
          [] direct[1] = "num" /\ diffuse = NULL -> direct
          [] direct = NULL /\ diffuse[1] = "num" -> diffuse
          [] direct = NULL /\ diffuse = NULL -> NULL
          [] OTHER -> BAD

\* the records of a country and timestamp among those built
WeatherRecordsOf(code, ts) ==
    {n \in DOMAIN WeatherOut :
        WeatherOut[n].country_code = code /\ WeatherOut[n].timestamp = ts}

RowsOfTs(ts) == {i \in DOMAIN table.rows : table.rows[i].ts = ts}

\* C21 as stated: for every row and entity, no record when temperature
\* and irradiance are both null, exactly one record otherwise, and its
\* irradiance is the sum of the two components, the one present, or null.
C21_IrradianceEveryRow ==
    WeatherBuilt =>
        \A code \in WeatherEntities, ts \in 1..MaxTs :
            /\ Cardinality(WeatherRecordsOf(code, ts)) =
                   Cardinality({i \in RowsOfTs(ts) :
                       ~(TemperatureOf(table.rows[i], code) = NULL
                         /\ IrradianceOf(table.rows[i], code) = NULL)})
            /\ \A n \in WeatherRecordsOf(code, ts) :
                   \E i \in RowsOfTs(ts) :
                       WeatherOut[n].solar_irradiance_wm2 =
                           IrradianceOf(table.rows[i], code)

\* C21, amended: the same for every row and entity whose fields all parse
\* as numbers or are null; a row and entity with a field that does not
\* parse has no record.
C21_IrradianceParsedRows ==
    WeatherBuilt =>
        \A code \in WeatherEntities, ts \in 1..MaxTs :
            /\ Cardinality(WeatherRecordsOf(code, ts)) =
                   Cardinality({i \in RowsOfTs(ts) :
                       /\ ~Unparsable(table.rows[i], code)
                       /\ ~(TemperatureOf(table.rows[i], code) = NULL
                            /\ IrradianceOf(table.rows[i], code) = NULL)})
            /\ \A n \in WeatherRecordsOf(code, ts) :
                   \E i \in RowsOfTs(ts) :
                       /\ ~Unparsable(table.rows[i], code)
                       /\ WeatherOut[n].solar_irradiance_wm2 =
                              IrradianceOf(table.rows[i], code)
                       /\ WeatherOut[n].temperature_celsius =
                              TemperatureOf(table.rows[i], code)

\* a record whose irradiance is the sum of two different components, built
\* from a row without a temperature
C21_Witness ==
    /\ WeatherBuilt
    /\ Len(WeatherOut) = 1
    /\ WeatherOut[1].solar_irradiance_wm2 = Num(3)
    /\ WeatherOut[1].temperature_celsius = NULL

\* ================================================ the weather dry run
\* C22: for every table, country filter and batch size, the weather
\* importer's dry run returns the same weather_records count as its run
\* that writes, on the same input.
C22_WeatherDryRunCountEqual ==
    \A i, j \in DOMAIN history :
        (/\ history[i].kind = "weather" /\ history[i].dry_run
         /\ history[j].kind = "weather" /\ ~history[j].dry_run
         /\ history[i].outcome = "ok" /\ history[j].outcome = "ok")
        => history[i].stats.weather_records =
               history[j].stats.weather_records

\* ================================================== the combined table
\* A frame is [cols, rows]: the set of its column names and its rows, each a
\* function from the columns to cells. A cell that is a timestamp, a code or
\* a text is tagged like the numbers are.
Ts(t) == <<"ts", t>>
Code(c) == <<"code", c>>
Text(s) == <<"str", s>>

timestamp == <<"timestamp">>
country_code == <<"country_code">>
actual_load_mw == <<"actual_load_mw">>
forecast_load_mw == <<"forecast_load_mw">>

\* pd.DataFrame(): no column, no row
EmptyFrame == [cols |-> {}, rows |-> <<>>]

\* df.empty
FrameEmpty(df) == df.cols = {} \/ df.rows = <<>>

KeyColumns == {timestamp, country_code}
MergeKey(row) == <<row[timestamp], row[country_code]>>

\* the rows of a model inside the window and of the countries asked for
InWindow(ts, code, countries_asked, start, end) ==
    /\ ts >= start
    /\ ts <= end
    /\ \/ countries_asked = <<>>
       \/ code \in {upper(c) : c \in Range(countries_asked)}

\* lines 145-156: load_df
load_frame(loads) ==
    [cols |-> {timestamp, country_code, actual_load_mw, forecast_load_mw},
     rows |-> [i \in DOMAIN loads |->
                 (timestamp :> Ts(loads[i].utc_timestamp))
                 @@ (country_code :> Code(loads[i].country_code))
                 @@ (actual_load_mw :> loads[i].actual_load_mw)
                 @@ (forecast_load_mw :> loads[i].forecast_load_mw)]]

\* lines 176-186: pivot_table(index=[timestamp, country_code],
\* columns=generation_type, values=[...], aggfunc='first'), its columns
\* renamed to <type>_<value>; a column without any value is dropped, and so
\* is a key without any value
GenerationValueFields ==
    {"actual_generation_mw", "capacity_mw", "capacity_factor"}

GenerationField(g, f) ==
    CASE f = "actual_generation_mw" -> g.actual_generation_mw
      [] f = "capacity_mw" -> g.capacity_mw
      [] f = "capacity_factor" -> g.capacity_factor

First(cells) ==
    LET hits == {n \in DOMAIN cells : cells[n] # NULL}
    IN IF hits = {} THEN NULL
       ELSE cells[CHOOSE n \in hits : \A m \in hits : n <= m]

gen_pivot(gens) ==
    LET cols == {<<gens[n].generation_type, f>> :
                    n \in DOMAIN gens, f \in GenerationValueFields}
        kept == {c \in cols : \E n \in DOMAIN gens :
                    /\ gens[n].generation_type = c[1]
                    /\ GenerationField(gens[n], c[2]) # NULL}
        valued == SelectSeq(gens, LAMBDA g : \E f \in GenerationValueFields :
                                GenerationField(g, f) # NULL)
        key(g) == <<Ts(g.utc_timestamp), Code(g.country_code)>>
        first == SelectSeq([n \in DOMAIN valued |-> n],
                     LAMBDA n : \A m \in 1..(n - 1) :
                         key(valued[m]) # key(valued[n]))
    IN IF gens = <<>> THEN [cols |-> KeyColumns, rows |-> <<>>]
       ELSE [cols |-> KeyColumns \cup kept,
             rows |-> [k \in DOMAIN first |->
                 LET g == valued[first[k]] IN
                 [c \in KeyColumns \cup kept |->
                     IF c = timestamp THEN Ts(g.utc_timestamp)
                     ELSE IF c = country_code THEN Code(g.country_code)
                     ELSE First(
                         [n \in DOMAIN
                              SelectSeq(valued, LAMBDA h :
                                  key(h) = key(g) /\ h.generation_type = c[1])
                          |-> GenerationField(
                                  SelectSeq(valued, LAMBDA h :
                                      key(h) = key(g)
                                      /\ h.generation_type = c[1])[n],
                                  c[2])])]]]

\* lines 199-213: weather_df
WeatherColumns ==
    {<<"temperature_celsius">>, <<"solar_irradiance_wm2">>,
     <<"humidity_percent">>, <<"wind_speed_ms">>, <<"pressure_hpa">>}

weather_frame(weathers) ==
    [cols |-> KeyColumns \cup WeatherColumns,
     rows |-> [i \in DOMAIN weathers |->
                 [c \in KeyColumns \cup WeatherColumns |->
                     CASE c = timestamp -> Ts(weathers[i].timestamp)
                       [] c = country_code -> Code(weathers[i].country_code)
                       [] c = <<"temperature_celsius">> ->
                              weathers[i].temperature_celsius
                       [] c = <<"solar_irradiance_wm2">> ->
                              weathers[i].solar_irradiance_wm2
                       [] OTHER -> NULL]]]

\* lines 217-230: price_df
PriceColumns == {<<"day_ahead_price">>, <<"currency">>}

price_frame(prices) ==
    [cols |-> KeyColumns \cup PriceColumns,
     rows |-> [i \in DOMAIN prices |->
                 [c \in KeyColumns \cup PriceColumns |->
                     CASE c = timestamp -> Ts(prices[i].utc_timestamp)
                       [] c = country_code -> Code(prices[i].country_code)
                       [] c = <<"day_ahead_price">> -> prices[i].day_ahead_price
                       [] c = <<"currency">> -> Text(prices[i].currency)]]]

\* left.merge(right, on=[timestamp, country_code], how='inner')
merge_inner(left, right) ==
    [cols |-> left.cols \cup right.cols,
     rows |-> Concat([i \in DOMAIN left.rows |->
         LET hits == SelectSeq(right.rows, LAMBDA r :
                         MergeKey(r) = MergeKey(left.rows[i]))
         IN [j \in DOMAIN hits |->
                [c \in left.cols \cup right.cols |->
                    IF c \in left.cols THEN left.rows[i][c]
                    ELSE hits[j][c]]]])]

\* left.merge(right, on=[timestamp, country_code], how='left'): every row
\* of left once per row of right with its key, and once with nulls when
\* right has none
merge_left(left, right) ==
    [cols |-> left.cols \cup right.cols,
     rows |-> Concat([i \in DOMAIN left.rows |->
         LET hits == SelectSeq(right.rows, LAMBDA r :
                         MergeKey(r) = MergeKey(left.rows[i]))
         IN IF hits = <<>>
            THEN << [c \in left.cols \cup right.cols |->
                       IF c \in left.cols THEN left.rows[i][c] ELSE NULL] >>
            ELSE [j \in DOMAIN hits |->
                    [c \in left.cols \cup right.cols |->
                        IF c \in left.cols THEN left.rows[i][c]
                        ELSE hits[j][c]]]])]

\* lines 237-252: `if not right.empty: combined_df = combined_df.merge(...)`
merge_if_any(left, right) ==
    IF FrameEmpty(right) THEN left ELSE merge_left(left, right)

\* extract_combined_data up to its last call: the frames of the four
\* models, merged onto the load frame
combined_frame(loads, d, o, t) ==
    LET start == start_date(o, d.load, t)
        end == end_date(o, d.load, t)
        gens == SelectSeq(d.generation, LAMBDA g :
                    InWindow(g.utc_timestamp, g.country_code, o.countries,
                             start, end))
        weathers == SelectSeq(d.weather, LAMBDA w :
                    InWindow(w.timestamp, w.country_code, o.countries,
                             start, end))
        prices == SelectSeq(d.price, LAMBDA p :
                    InWindow(p.utc_timestamp, p.country_code, o.countries,
                             start, end))
    IN IF loads = <<>> THEN EmptyFrame
       ELSE merge_if_any(
                merge_if_any(
                    merge_if_any(load_frame(loads), gen_pivot(gens)),
                    weather_frame(weathers)),
                price_frame(prices))

\* ------------------------------------------------ the derived features
hour == <<"hour">>
day_of_week == <<"day_of_week">>
month == <<"month">>
is_weekend == <<"is_weekend">>
forecast_error_mw == <<"forecast_error_mw">>
forecast_error_pct == <<"forecast_error_pct">>
total_renewable_mw == <<"total_renewable_mw">>
renewable_penetration_pct == <<"renewable_penetration_pct">>

TimeFeatures == {hour, day_of_week, month, is_weekend}

\* a - b on float columns: NaN when one of them is
Minus(a, b) == IF a = NULL \/ b = NULL THEN NULL ELSE Num(a[2] - b[2])

INF == <<"inf">>
NEG_INF == <<"-inf">>

\* n / d * 100 on float columns, as numpy divides: NaN when one of them is
\* NaN and for 0 / 0, an infinity for another number over 0; the quotient is
\* kept as its two terms
Percent(n, d) ==
    IF n = NULL \/ d = NULL THEN NULL
    ELSE IF d[2] = 0
         THEN IF n[2] = 0 THEN NULL ELSE IF n[2] > 0 THEN INF ELSE NEG_INF
    ELSE <<"pct", n[2], d[2]>>

\* Series.fillna(0): only NaN is replaced
fillna(v) == IF v = NULL THEN Num(0) ELSE v

\* lines 270-274
forecast_error_pct_of(actual, forecast) ==
    fillna(Percent(Minus(actual, forecast), actual))

\* line 277: the columns whose name contains 'actual_generation_mw'
renewable_cols(df) ==
    {c \in df.cols : "actual_generation_mw" \in Range(c)}

RECURSIVE SumCells(_, _)
SumCells(row, cols) ==
    IF cols = {} THEN 0
    ELSE LET c == CHOOSE x \in cols : TRUE
         IN (IF row[c] = NULL THEN 0 ELSE row[c][2])
            + SumCells(row, cols \ {c})

\* line 279: df[renewable_cols].sum(axis=1) skips NaN
total_renewable(row, cols) == Num(SumCells(row, cols))

\* lines 281-283
renewable_penetration_pct_of(total, actual) == fillna(Percent(total, actual))

\* the columns a frame has after add_derived_features
FeatureColumns(df) ==
    TimeFeatures
    \cup (IF {actual_load_mw, forecast_load_mw} \subseteq df.cols
          THEN {forecast_error_mw, forecast_error_pct} ELSE {})
    \cup (IF renewable_cols(df) # {} THEN {total_renewable_mw} ELSE {})
    \cup (IF renewable_cols(df) # {} /\ actual_load_mw \in df.cols
          THEN {renewable_penetration_pct} ELSE {})

FeatureCell(df, row, c) ==
    CASE c = hour -> <<"hour of", row[timestamp]>>
      [] c = day_of_week -> <<"dayofweek of", row[timestamp]>>
      [] c = month -> <<"month of", row[timestamp]>>
      [] c = is_weekend -> <<"dayofweek in 5, 6", row[timestamp]>>
      [] c = forecast_error_mw ->
             Minus(row[actual_load_mw], row[forecast_load_mw])
      [] c = forecast_error_pct ->
             forecast_error_pct_of(row[actual_load_mw], row[forecast_load_mw])
      [] c = total_renewable_mw -> total_renewable(row, renewable_cols(df))
      [] c = renewable_penetration_pct ->
             renewable_penetration_pct_of(
                 total_renewable(row, renewable_cols(df)),
                 row[actual_load_mw])

\* the load features computed without asking whether their columns exist:
\* df['forecast_load_mw'] raises a KeyError on a frame without it
add_derived_features_unguarded(df) ==
    IF FrameEmpty(df) THEN [raised |-> FALSE, out |-> df]
    ELSE IF ~({timestamp, actual_load_mw, forecast_load_mw} \subseteq df.cols)
         THEN [raised |-> TRUE, out |-> df]
    ELSE [raised |-> FALSE,
          out |-> [cols |-> df.cols \cup FeatureColumns(df),
                   rows |-> [i \in DOMAIN df.rows |->
                       [c \in df.cols \cup FeatureColumns(df) |->
                           IF c \in FeatureColumns(df)
                           THEN FeatureCell(df, df.rows[i], c)
                           ELSE df.rows[i][c]]]]]

\* add_derived_features: df['timestamp'] is the one column it reads without
\* asking (a KeyError on a frame without it)
add_derived_features(df) ==
    IF FrameEmpty(df) THEN [raised |-> FALSE, out |-> df]
    ELSE IF timestamp \notin df.cols THEN [raised |-> TRUE, out |-> df]
    ELSE [raised |-> FALSE,
          out |-> [cols |-> df.cols \cup FeatureColumns(df),
                   rows |-> [i \in DOMAIN df.rows |->
                       [c \in df.cols \cup FeatureColumns(df) |->
                           IF c \in FeatureColumns(df)
                           THEN FeatureCell(df, df.rows[i], c)
                           ELSE df.rows[i][c]]]]]

\* ------------------------------------------------ the stores extracted from
GenerationRow(code, ts, type, gen, cap) ==
    [utc_timestamp |-> ts, country_code |-> code, generation_type |-> type,
     actual_generation_mw |-> gen, capacity_mw |-> cap,
     capacity_factor |-> IF HasFactor(cap) THEN Ratio(gen, cap) ELSE NULL]

WeatherRow(code, ts, location, temperature) ==
    [timestamp |-> ts, location |-> location, country_code |-> code,
     temperature_celsius |-> temperature, solar_irradiance_wm2 |-> NULL]

PriceRow(code, ts, price) ==
    [utc_timestamp |-> ts, country_code |-> code, day_ahead_price |-> price,
     currency |-> currency(code)]

\* the rows of seq at the positions in S, in their order
Pick(seq, S) == SelectSeq([i \in DOMAIN seq |-> IF i \in S THEN <<seq[i]>> ELSE <<>>],
                          LAMBDA x : x # <<>>)

SubSeqs(seq) ==
    {[k \in DOMAIN Pick(seq, S) |-> Pick(seq, S)[k][1]] : S \in SUBSET DOMAIN seq}

LoadStores ==
    UNION { { << [utc_timestamp |-> 1, country_code |-> DE,
                  actual_load_mw |-> a, forecast_load_mw |-> f] >>,
              << [utc_timestamp |-> 1, country_code |-> DE,
                  actual_load_mw |-> a, forecast_load_mw |-> f],
                 [utc_timestamp |-> 1, country_code |-> FR,
                  actual_load_mw |-> Num(2), forecast_load_mw |-> NULL] >> } :
            a \in {NULL, Num(0), Num(2)}, f \in {NULL, Num(1)} }
    \cup { <<>> }

CombineStores ==
    { [load |-> l, generation |-> g, price |-> p, weather |-> w,
       import_log |-> <<>>] :
        l \in LoadStores,
        g \in SubSeqs(<< GenerationRow(DE, 1, "solar", Num(1), Num(2)),
                         GenerationRow(DE, 1, "wind_total", Num(0), NULL),
                         GenerationRow(FR, MaxTs, "solar", Num(1), NULL) >>),
        w \in SubSeqs(<< WeatherRow(DE, 1, <<DE, "Average">>, Num(1)),
                         WeatherRow(DE, 1, <<"Berlin">>, Num(2)),
                         WeatherRow(FR, MaxTs, <<FR, "Average">>, NULL) >>),
        p \in SubSeqs(<< PriceRow(DE, 1, Num(1)) >>) }

CombineOptions ==
    { DefaultOptions,
      [DefaultOptions EXCEPT !.countries = << <<"d", "e">> >>],
      [DefaultOptions EXCEPT !.sample_size = 1] }

\* the orders in which order_by('?') may return the rows at the positions S
Orders(S) ==
    {f \in [1..Cardinality(S) -> S] :
        \A i, j \in 1..Cardinality(S) : i # j => f[i] # f[j]}

\* extract_combined_data, lines 125-252: the sample of the load rows and the
\* frames merged onto it
ExtractCombinedData ==
    /\ pc = "idle"
    /\ \E o \in CombineOptions :
       \E sample \in Samples(db.load, o, now) :
       \E order \in Orders(sample) :
          LET loads == [k \in DOMAIN order |-> db.load[order[k]]] IN
          /\ table' = combined_frame(loads, db, o, now)
          /\ history' = <<[op |-> "combine", opts |-> o, load_data |-> loads]>>
    /\ pc' = "combined"
    /\ UNCHANGED <<kind, batch_size, countries, dry_run, start_idx, stats,
                   db, tx, committed, failures, report_vars>>

\* extract_combined_data, line 255, and add_derived_features
AddDerivedFeatures ==
    /\ pc = "combined"
    /\ LET res == add_derived_features(table) IN
       /\ table' = res.out
       /\ history' = Append(history, [op |-> "features", given |-> table,
                                      raised |-> res.raised])
    /\ pc' = "featured"
    /\ UNCHANGED <<kind, batch_size, countries, dry_run, start_idx, stats,
                   db, tx, committed, failures, report_vars>>

CombineInit ==
    /\ kind = "profile"
    /\ table = EmptyFrame
    /\ batch_size = 1
    /\ countries = <<>>
    /\ dry_run = FALSE
    /\ pc = "idle"
    /\ start_idx = 0
    /\ stats = ZeroStats
    /\ db \in CombineStores
    /\ tx = db
    /\ committed = db
    /\ failures = {}
    /\ history = <<>>
    /\ ReportQuiet

CombineNext ==
    \/ ExtractCombinedData
    \/ AddDerivedFeatures

SpecCombine == CombineInit /\ [][CombineNext]_vars

\* ------------------------------------------------- the combined table's claims
Combined == \E n \in DOMAIN history : history[n].op = "combine"
LoadSample == history[1].load_data

\* the frame as extract_combined_data merged it, before the features
MergedFrame == IF pc = "combined" THEN table ELSE history[2].given

\* the rows of the merged frame that carry a load row
RowsOfLoad(l) ==
    {i \in DOMAIN MergedFrame.rows :
        /\ MergedFrame.rows[i][timestamp] = Ts(l.utc_timestamp)
        /\ MergedFrame.rows[i][country_code] = Code(l.country_code)
        /\ MergedFrame.rows[i][actual_load_mw] = l.actual_load_mw
        /\ MergedFrame.rows[i][forecast_load_mw] = l.forecast_load_mw}

\* the window of the extraction that ran
WindowOf(ts, code) ==
    InWindow(ts, code, history[1].opts.countries,
             start_date(history[1].opts, db.load, now),
             end_date(history[1].opts, db.load, now))

HasGeneration(l) ==
    \E n \in DOMAIN db.generation :
        /\ db.generation[n].utc_timestamp = l.utc_timestamp
        /\ db.generation[n].country_code = l.country_code
        /\ WindowOf(l.utc_timestamp, l.country_code)

HasWeather(l) ==
    \E n \in DOMAIN db.weather :
        /\ db.weather[n].timestamp = l.utc_timestamp
        /\ db.weather[n].country_code = l.country_code
        /\ WindowOf(l.utc_timestamp, l.country_code)

HasPrice(l) ==
    \E n \in DOMAIN db.price :
        /\ db.price[n].utc_timestamp = l.utc_timestamp
        /\ db.price[n].country_code = l.country_code
        /\ WindowOf(l.utc_timestamp, l.country_code)

GenerationColumnsOf(df) ==
    {c \in df.cols : Len(c) = 2 /\ c[2] \in GenerationValueFields}

\* C23 as stated: every extracted load row is in the combined table, and
\* where a domain has no row for its entity and timestamp the row has that
\* domain's fields, all null.
C23_LoadRowsKeptFieldsNull ==
    Combined =>
        \A n \in DOMAIN LoadSample :
            LET l == LoadSample[n] IN
            /\ RowsOfLoad(l) # {}
            /\ \A i \in RowsOfLoad(l) :
                  /\ ~HasGeneration(l) =>
                        \A c \in GenerationColumnsOf(MergedFrame) :
                            MergedFrame.rows[i][c] = NULL
                  /\ ~HasWeather(l) =>
                        \A c \in WeatherColumns :
                            /\ c \in MergedFrame.cols
                            /\ MergedFrame.rows[i][c] = NULL
                  /\ ~HasPrice(l) =>
                        \A c \in PriceColumns :
                            /\ c \in MergedFrame.cols
                            /\ MergedFrame.rows[i][c] = NULL

\* C23, amended: every extracted load row is in the combined table; where a
\* domain has no row for its entity and timestamp, each field of that
\* domain is null in the row, or the table has no such column at all when
\* the domain has no row inside the window.
C23_LoadRowsKept ==
    Combined =>
        \A n \in DOMAIN LoadSample :
            LET l == LoadSample[n] IN
            /\ RowsOfLoad(l) # {}
            /\ \A i \in RowsOfLoad(l) :
                  /\ ~HasGeneration(l) =>
                        \A c \in GenerationColumnsOf(MergedFrame) :
                            MergedFrame.rows[i][c] = NULL
                  /\ ~HasWeather(l) =>
                        \A c \in WeatherColumns :
                            IF \E w \in DOMAIN db.weather :
                                   WindowOf(db.weather[w].timestamp,
                                            db.weather[w].country_code)
                            THEN /\ c \in MergedFrame.cols
                                 /\ MergedFrame.rows[i][c] = NULL
                            ELSE c \notin MergedFrame.cols
                  /\ ~HasPrice(l) =>
                        \A c \in PriceColumns :
                            IF \E p \in DOMAIN db.price :
                                   WindowOf(db.price[p].utc_timestamp,
                                            db.price[p].country_code)
                            THEN /\ c \in MergedFrame.cols
                                 /\ MergedFrame.rows[i][c] = NULL
                            ELSE c \notin MergedFrame.cols

\* two load rows were extracted, one with weather and a price, the other
\* with neither: the table holds both, the second with nulls
C23_Witness ==
    /\ Combined
    /\ Len(LoadSample) = 2
    /\ \E n \in DOMAIN LoadSample :
           /\ HasWeather(LoadSample[n]) /\ HasPrice(LoadSample[n])
    /\ \E n \in DOMAIN LoadSample :
           /\ ~HasWeather(LoadSample[n]) /\ ~HasPrice(LoadSample[n])
           /\ ~HasGeneration(LoadSample[n])
           /\ \E i \in RowsOfLoad(LoadSample[n]) :
                  /\ MergedFrame.rows[i][<<"day_ahead_price">>] = NULL
                  /\ MergedFrame.rows[i][<<"temperature_celsius">>] = NULL
                  /\ GenerationColumnsOf(MergedFrame) # {}

\* --------------------------------------------------- the percentages
Featured == pc = "featured"

PercentColumns == {forecast_error_pct, renewable_penetration_pct}

ZeroOrMissing(v) == v = NULL \/ v = Num(0)

\* C24: in every row of the combined table whose actual load is zero or
\* missing, forecast error percent and renewable penetration percent are
\* exactly zero; no row carries an undefined or infinite percentage.
C24_PercentagesGuarded ==
    Featured =>
        \A i \in DOMAIN table.rows :
            \A c \in PercentColumns \cap table.cols :
                /\ table.rows[i][c] \notin {NULL, INF, NEG_INF}
                /\ ZeroOrMissing(table.rows[i][actual_load_mw])
                       => table.rows[i][c] = Num(0)

\* ====================================== the derived features, by input
\* frames given to add_derived_features: the two key columns, any of the
\* optional columns, with and without rows
OptionalColumns ==
    {actual_load_mw, forecast_load_mw,
     <<"solar", "actual_generation_mw">>,
     <<"wind_total", "actual_generation_mw">>}

CellsOfColumn(c) ==
    CASE c = timestamp -> {Ts(1)}
      [] c = country_code -> {Code(DE)}
      [] c = actual_load_mw -> {NULL, Num(0), Num(2)}
      [] c = forecast_load_mw -> {NULL, Num(1)}
      [] OTHER -> {NULL, Num(1)}

FramesWith(optional) ==
    UNION { { [cols |-> KeyColumns \cup opt, rows |-> r] :
                r \in UNION { [1..n -> { f \in [KeyColumns \cup opt ->
                                                  UNION {CellsOfColumn(c) :
                                                      c \in KeyColumns \cup opt}] :
                                            \A c \in KeyColumns \cup opt :
                                                f[c] \in CellsOfColumn(c) }] :
                              n \in 0..MaxBuildRows } } :
            opt \in SUBSET optional }

FeaturesInit ==
    /\ kind = "profile"
    /\ table \in FramesWith(OptionalColumns)
    /\ batch_size = 1
    /\ countries = <<>>
    /\ dry_run = FALSE
    /\ pc = "combined"
    /\ start_idx = 0
    /\ stats = ZeroStats
    /\ db = EmptyDb
    /\ tx = EmptyDb
    /\ committed = EmptyDb
    /\ failures = {}
    /\ history = <<>>
    /\ ReportQuiet

FeaturesNext == AddDerivedFeatures

SpecFeatures == FeaturesInit /\ [][FeaturesNext]_vars

\* --------------------------------------------- the feature computer's claims
Given == history[Len(history)].given

\* the features the claim expects of a frame, by the columns it has
ExpectedFeatures(df) ==
    TimeFeatures
    \cup (IF actual_load_mw \in df.cols /\ forecast_load_mw \in df.cols
          THEN {forecast_error_mw, forecast_error_pct} ELSE {})
    \cup (IF \E c \in df.cols : Len(c) = 2 /\ c[2] = "actual_generation_mw"
          THEN {total_renewable_mw} ELSE {})
    \cup (IF /\ \E c \in df.cols : Len(c) = 2 /\ c[2] = "actual_generation_mw"
             /\ actual_load_mw \in df.cols
          THEN {renewable_penetration_pct} ELSE {})

DerivedFeatures ==
    TimeFeatures \cup {forecast_error_mw, forecast_error_pct,
                       total_renewable_mw, renewable_penetration_pct}

\* C25: the feature computer never raises on a frame that lacks optional
\* columns; a feature whose inputs are missing is no column of the result,
\* and every row of the result carries each feature whose inputs are
\* present, computed from them, next to the columns it was given.
C25_MissingColumnsTolerated ==
    Featured =>
        /\ ~history[Len(history)].raised
        /\ \A c \in DerivedFeatures \ ExpectedFeatures(Given) :
               c \notin table.cols
        /\ Len(table.rows) = Len(Given.rows)
        /\ \A i \in DOMAIN table.rows :
               /\ ExpectedFeatures(Given) \subseteq DOMAIN table.rows[i]
               /\ \A c \in Given.cols : table.rows[i][c] = Given.rows[i][c]
               /\ forecast_error_mw \in ExpectedFeatures(Given) =>
                      table.rows[i][forecast_error_mw] =
                          Minus(Given.rows[i][actual_load_mw],
                                Given.rows[i][forecast_load_mw])
               /\ total_renewable_mw \in ExpectedFeatures(Given) =>
                      table.rows[i][total_renewable_mw][1] = "num"

\* a frame with the actual load and a generation column but no forecast:
\* the renewable features are computed, the forecast error is absent
C25_Witness ==
    /\ Featured
    /\ forecast_load_mw \notin Given.cols
    /\ Len(table.rows) = 1
    /\ {total_renewable_mw, renewable_penetration_pct} \subseteq table.cols
    /\ table.rows[1][total_renewable_mw] = Num(1)
    /\ table.rows[1][renewable_penetration_pct] = <<"pct", 1, 2>>
    /\ forecast_error_mw \notin table.cols

\* ========================================== the log's other writers
\* STATUS_CHOICES of ReportGenerationLog
STATUS_CHOICES == {"success", "failed", "in_progress"}

\* the text an administrator types into error_message
EditedMessage == <<"edited in the admin">>

\* ReportGenerationLogAdmin is a ModelAdmin with the default permissions:
\* its change form saves the row with the status and the error message the
\* administrator entered (neither is in readonly_fields), whatever the
\* thread of the request is doing
AdminChangeLog(r, status) ==
    /\ req[r].pc \in Alive
    /\ logs' = [logs EXCEPT ![r].status = status,
                            ![r].error_message = EditedMessage]
    /\ UNCHANGED <<req, reports, files, s3, now, settings, db, import_vars>>

AdminInit == ReportInit

AdminNext ==
    \/ \E r \in Requests : GenerateReportView(r, DefaultOptions)
    \/ \E r \in Requests : ThreadStep(r)
    \/ \E r \in Requests, status \in STATUS_CHOICES : AdminChangeLog(r, status)

SpecAdmin == AdminInit /\ [][AdminNext]_vars

\* C26: while a request runs, its Generation Log row changes only in a
\* step of the thread that owns the request; no other unit or operation
\* writes it (so the owner's save overwrites no one's update).
C26_OnlyOwnerWritesLog ==
    [][\A r \in Requests :
          (req[r].pc \in Alive /\ logs'[r] # logs[r])
              => req'[r].pc # req[r].pc]_vars

\* ===================================== the price record builder, by input
\* entity codes of price columns: GB, codes that begin with GB, codes that
\* only contain its letters, and others
PriceCodes ==
    {GB, <<"G", "B", "N">>, <<"G">>, <<"B", "G">>, <<"g", "b">>, DE}

PriceHeaders ==
    {h \in [1..2 -> {<<code, "price", "day", "ahead">> : code \in PriceCodes}] :
        h[1] # h[2]}

PriceValues == {NULL, Num(1), Num(2)}

\* import_price_data on the whole table: the records it builds
BuildPriceRecords ==
    /\ pc = "classified"
    /\ history' = Append(history,
           [op |-> "price",
            out |-> price_records(table.rows, history[1].out["energy_prices"])])
    /\ pc' = "price built"
    /\ UNCHANGED <<kind, table, batch_size, countries, dry_run, start_idx,
                   stats, db, tx, committed, failures, report_vars>>

PriceInit ==
    /\ kind = "opsd"
    /\ table \in TablesWith(PriceHeaders, PriceValues)
    /\ batch_size = 1
    /\ countries = <<>>
    /\ dry_run = FALSE
    /\ pc = "idle"
    /\ start_idx = 0
    /\ stats = ZeroStats
    /\ db = EmptyDb
    /\ tx = EmptyDb
    /\ committed = EmptyDb
    /\ failures = {}
    /\ history = <<>>
    /\ ReportQuiet

PriceNext ==
    \/ ClassifyColumns
    \/ BuildPriceRecords

SpecPrice == PriceInit /\ [][PriceNext]_vars

\* --------------------------------------------- the price builder's claims
PriceBuilt == \E n \in DOMAIN history : history[n].op = "price"
PriceOut == history[2].out

BeginsWithGB(code) == Len(code) >= 2 /\ code[1] = "G" /\ code[2] = "B"

\* C27: every price record built has currency GBP when its entity code
\* begins with GB, and EUR for every other entity code.
C27_CurrencyByPrefix ==
    PriceBuilt =>
        \A n \in DOMAIN PriceOut :
            /\ PriceOut[n].country_code \in {c[1] : c \in Range(table.cols)}
            /\ PriceOut[n].currency =
                   IF BeginsWithGB(PriceOut[n].country_code)
                   THEN "GBP" ELSE "EUR"

\* a record in GBP of a code longer than GB next to a record in EUR
C27_Witness ==
    /\ PriceBuilt
    /\ \E n, m \in DOMAIN PriceOut :
           /\ PriceOut[n].country_code = <<"G", "B", "N">>
           /\ PriceOut[n].currency = "GBP"
           /\ PriceOut[m].country_code = <<"B", "G">>
           /\ PriceOut[m].currency = "EUR"

\* ============================= the counters against the persisted rows
\* headers in which two columns share the entity prefix and the metric
SharedPrefixColumnLists ==
    { << <<DE, "solar", "generation", "actual">>,
         <<DE, "50hertz", "solar", "generation", "actual">> >>,
      << <<DE, "price", "day", "ahead">>,
         <<DE, "LU", "price", "day", "ahead">> >>,
      << <<DE, "load", "actual">>, <<FR, "load", "actual">> >> }

\* a session of the OPSD importer on such a source
CountersInit ==
    /\ kind = "opsd"
    /\ table \in TablesOver(SharedPrefixColumnLists)
    /\ batch_size \in 1..MaxBatch
    /\ countries = <<>>
    /\ dry_run = FALSE
    /\ pc = "idle"
    /\ start_idx = 0
    /\ stats = ZeroStats
    /\ db = EmptyDb
    /\ tx = EmptyDb
    /\ committed = EmptyDb
    /\ failures = {}
    /\ history = <<>>
    /\ ReportQuiet

CountersNext ==
    \/ \E dry \in BOOLEAN : StartCommand(dry)
    \/ ImportLoadData
    \/ ImportGenerationData
    \/ ImportPriceData
    \/ CountBatch
    \/ HandleFinish

SpecCounters == CountersInit /\ [][CountersNext]_vars

\* the data tables of a store hold no row
NoDataRows(d) == d.load = <<>> /\ d.generation = <<>> /\ d.price = <<>>

\* C28: after a run of the OPSD importer that writes, into an empty store,
\* the load_records, generation_records and price_records counters it
\* returned are the numbers of load, generation and price rows persisted.
C28_CountersArePersistedRows ==
    \A n \in DOMAIN history :
        (/\ history[n].kind = "opsd" /\ ~history[n].dry_run
         /\ Returned(history[n])
         /\ NoDataRows(history[n].before))
        => /\ history[n].stats.load_records = Len(history[n].after.load)
           /\ history[n].stats.generation_records =
                  Len(history[n].after.generation)
           /\ history[n].stats.price_records = Len(history[n].after.price)

\* ================================================ the requests' files
\* the request whose report a report reference leads to (0: to none)
HolderOf(url) ==
    CASE url = NoPath -> 0
      [] url[1] \in {"presigned", "direct"} ->
             IF S3Key(url) \in DOMAIN s3 THEN s3[S3Key(url)] ELSE 0
      [] url[1] = "media_url" ->
             IF LocalPath(url[2]) \in DOMAIN files
             THEN files[LocalPath(url[2])] ELSE 0
      [] OTHER -> IF url \in DOMAIN files THEN files[url] ELSE 0

\* C29: requests that run concurrently never write, move or delete each
\* other's report file: the file a request generated is there, holding its
\* own report, until the request itself uploads and removes it, and the
\* reference recorded for a request leads to the report of that request.
C29_RequestsKeepTheirFiles ==
    /\ \A r \in Requests :
           req[r].pc \in {"upload", "cleanup"} =>
               /\ req[r].report_path \in DOMAIN files
               /\ files[req[r].report_path] = r
    /\ \A i \in DOMAIN reports :
           HolderOf(reports[i].report_url) \in {0, reports[i].request}

\* =========================================== the log against the records
\* C30: a request ends with Generation Log status success if and only if
\* exactly one Report Record was created by it; a request that ends failed
\* has created no Report Record.
C30_SuccessIffOneRecord ==
    \A r \in Requests :
        req[r].pc = "ended" =>
            /\ Status(r) = "success" <=> Cardinality(RecordsOf(r)) = 1
            /\ Status(r) = "failed" => RecordsOf(r) = {}

=============================================================================
